---- MODULE Spec2Model ----
(***************************************************************************)
(* Bevor MCP: the remote API client (bevor_mcp/bevor_api/client.py), the   *)
(* lazily bootstrapped server facade (bevor_mcp/server.py), the dev-tools  *)
(* service (bevor_mcp/services/devtools) and the contracts-folder locator  *)
(* (bevor_mcp/utils/solidity_etl.py).                                      *)
(*                                                                         *)
(* Specifications:                                                         *)
(*   Spec          the server: NCallers tool/resource invocations racing   *)
(*                 through _ensure_client_initialized_async on one event   *)
(*                 loop;                                                   *)
(*   SpecClient    the client used as a library (as the tests do): an      *)
(*                 object constructed with any arguments, create() run up  *)
(*                 to MaxRuns times against any backend;                   *)
(*   SpecChat      one chat_contract call against any reply and stream;    *)
(*   SpecChatSession  the same call on a client that holds a session;      *)
(*   SpecDevTools  one call of the dev-tools service, its facade tools,    *)
(*                 an adapter probe or run_command, with its subprocess;   *)
(*   SpecEtl       the locator applied to any project tree, then the       *)
(*                 collector applied to the folder it returned;            *)
(*   SpecJobs      NJobs concurrent build/test calls on one service;       *)
(*   SpecMock      the mock client of the tests: create() and              *)
(*                 chat_contract called as the real client is called.      *)
(***************************************************************************)
EXTENDS Integers, Sequences, FiniteSets, TLC

VARIABLES
    \* ---- BevorApiClient fields (client.py 16-34)
    project_id, version_mapping_id, chat_id, contracts_folder_path,
    last_project_response, last_version_response, last_chat_response,
    \* ---- the running create() call: position, locals, outcome
    cpc,        \* "idle" | "project" | "upload" | "uploaded" | "chat" | "chatted"
                \*        | "returned" | "raised"
    frame,      \* locals of the candidate loop in progress: [i, j, last_resp, arg]
    ret,        \* value returned by versions_create_folder / chat_with_version
    error,      \* exception propagating out of create(), "none" when there is none
    \* ---- history of the requests the running create() has issued
    stages,     \* stages that issued at least one request, in order
    uploadLog,  \* POSTs of the versions_create_folder call: [path, field, pid, status]
    chatLog,    \* POSTs of the chat_with_version call: [path, vmid, status]
    runs,       \* number of create() executions started so far
    \* ---- server.py module state and the invocations in flight
    _initialized, initialized_client,
    locked,     \* _init_lock is held
    waiters,    \* invocations suspended in _init_lock.acquire(), in arrival order
    pc,         \* per invocation: "idle" | "waiting" | "creating" | "past" | "done"
                \*                 | "raised"
    result,     \* per invocation: what it returned or raised, "none" before that
    \* ---- a chat_contract call (client.py 239-304)
    cc_pc,          \* "idle" | "streaming" | "drained" | "returned" | "raised"
    cc_lines,       \* the lines response.iter_lines() yields, in arrival order
    cc_pos,         \* index of the line the for loop reads next
    full_response,  \* the text accumulated so far
    cc_result,      \* what the call returned or raised
    \* ---- a devtools call (services/devtools) and its subprocess
    dt_pc,          \* "idle" | "spawned" | "returned" | "raised"
    dt_call,        \* the operation called and its arguments
    dt_adapter,     \* name of the adapter the call resolved, None when none
    dt_proc,        \* the subprocess: state, argv, exit code, output so far
    dt_result,      \* what the call returned or raised
    \* ---- a find_contracts_folder_in_directory call (utils/solidity_etl.py)
    etl,            \* [pc, tree, order, result]
    \* ---- one DevToolsService instance used by concurrent invocations
    adapters,       \* self.adapters
    dt_jobs         \* per invocation: [pc, call, proc, result]

clientVars == <<project_id, version_mapping_id, chat_id, contracts_folder_path,
                last_project_response, last_version_response, last_chat_response>>
createVars == <<cpc, frame, ret, error, stages, uploadLog, chatLog, runs>>
serverVars == <<_initialized, initialized_client, locked, waiters, pc, result>>
chatVars == <<cc_pc, cc_lines, cc_pos, full_response, cc_result>>
devVars == <<dt_pc, dt_call, dt_adapter, dt_proc, dt_result>>
auxVars == <<etl, adapters, dt_jobs>>
vars == <<clientVars, createVars, serverVars, chatVars, devVars, auxVars>>

----------------------------------------------------------------------------
(* Bounds of the model *)

\* concurrent invocations (health_check or chat tools) of the server
NCallers == 2
\* create() executions on one client object in SpecClient
MaxRuns == 2

----------------------------------------------------------------------------
(* Python values *)

\* Python's None
None == "None"

\* bool(v) for the scalar values that occur (None and "" are falsy)
Truthy(v) == v /= None /\ v /= ""

\* Python's `a or b`
Or(a, b) == IF Truthy(a) THEN a ELSE b

\* dict.get(k)
Get(d, k) == IF k \in DOMAIN d THEN d[k] ELSE None

\* a dict value, a non-dict JSON value (a non-empty list), no value
PyDict(d) == [t |-> "dict", d |-> d]
PyList == [t |-> "list", d |-> [item |-> "x"]]
PyNone == [t |-> "none", d |-> [none |-> None]]

\* isinstance(v, dict)
IsDict(v) == v.t = "dict"

\* `x if isinstance(x, dict) else {"_raw": str(x)}` (client.py 45, 55, 68)
Diagnostic(v) == IF IsDict(v) THEN v ELSE PyDict([raw |-> v.t])

----------------------------------------------------------------------------
(* HTTP responses of the backend *)

\* a response with a JSON body, a response whose body is not JSON
JsonResp(status, v) == [status |-> status, json |-> TRUE, body |-> v]
TextResp(status, s) == [status |-> status, json |-> FALSE, body |-> PyDict([text |-> s])]

\* requests.RequestException raised instead of a response
TransportError == [status |-> 0, json |-> FALSE, body |-> PyDict([error |-> "ConnectionError"])]
IsTransportError(o) == o.status = 0

\* no response yet (last_resp = None)
NoResp == [status |-> 0, json |-> FALSE, body |-> PyNone]

\* try: resp.json() except ValueError: {"status_code": ..., "text": ...}
\* (client.py 120-123, 181-184, 188-191, 194-197, 221-224, 227-230, 232-235)
JsonOrEnvelope(resp) ==
    IF resp.json THEN resp.body
    ELSE PyDict([status_code |-> resp.status, text |-> resp.body.d.text])

\* {"error": str(e)} (client.py 177, 218)
ErrorValue(o) == PyDict([error |-> o.body.d.error])

\* what POST /projects may answer
ProjectOutcomes ==
    { JsonResp(201, PyDict([id |-> "p1"])),
      JsonResp(200, PyDict([project_id |-> "p2"])),
      JsonResp(200, PyDict([data |-> [id |-> "p1"]])),
      JsonResp(403, PyDict([detail |-> "limit"])),
      TextResp(502, "bad gateway"),
      JsonResp(200, PyList),
      TransportError }

\* what a folder-upload POST may answer
UploadOutcomes ==
    { JsonResp(404, PyDict([detail |-> "not found"])),
      TextResp(404, "not found"),
      JsonResp(200, PyDict([version_mapping_id |-> "v1"])),
      JsonResp(201, PyDict([data |-> [version_id |-> "v2"]])),
      JsonResp(200, PyDict([id |-> ""])),
      TextResp(204, ""),
      TextResp(500, "server error"),
      JsonResp(409, PyDict([id |-> "e1", detail |-> "conflict"])),
      JsonResp(200, PyList),
      TransportError }

\* what a chat-open POST may answer
ChatOutcomes ==
    { JsonResp(404, PyDict([detail |-> "not found"])),
      TextResp(404, "not found"),
      JsonResp(200, PyDict([id |-> "c1"])),
      JsonResp(201, PyDict([chat_id |-> "c2"])),
      TextResp(204, ""),
      JsonResp(500, PyDict([id |-> "e2", detail |-> "server error"])),
      JsonResp(200, PyList),
      TransportError }

----------------------------------------------------------------------------
(* The candidate loops of versions_create_folder and chat_with_version *)

\* files_variants (client.py 157-161): the multipart field names, in order
FieldNames == <<"files", "contracts", "sources">>

\* candidate_paths of versions_create_folder (client.py 163-168)
UploadPaths(pid) ==
    << <<"versions", "create", "folder">>,
       <<"versions", "create">>,
       <<"projects", pid, "versions">>,
       <<"versions">> >>

\* candidate_paths of chat_with_version (client.py 207-211)
ChatPaths(vmid) ==
    << <<"chats">>,
       <<"chats", "create">>,
       <<"versions", vmid, "chats">> >>

\* status_code >= 200 and status_code < 300 and status_code != 204
Accepted(status) == status >= 200 /\ status < 300 /\ status /= 204

\* C37 mutant: a 204 is passed over like a 404
TryNextNoContent(status) == status = 404 \/ status = 204

\* C9 mutant: every 4xx/5xx status is retried on the next candidate
TryNextAnyError(status) == status >= 400

\* `if resp.status_code == 404: continue`
TryNext(status) == status = 404

\* the loop variables at the first iteration (arg: the id the call was given)
FirstIter == [i |-> 1, j |-> 1, last_resp |-> NoResp, arg |-> None]

\* C8 mutant: the fall-through forgets the last response
LoopExitNoResponse(last_resp, what) == PyDict([error |-> what])

\* the loop falls through: return the last response, or the 'No response' error
LoopExit(last_resp, what) ==
    IF last_resp /= NoResp THEN JsonOrEnvelope(last_resp)
    ELSE PyDict([error |-> what])

\* C7 mutant: the loops are nested the other way round (field-major)
VersionsIterationFieldMajor(fr, o) ==
    LET nxt == IF fr.i < Len(UploadPaths(fr.arg))
               THEN [fr EXCEPT !.i = fr.i + 1, !.last_resp = o]
               ELSE [fr EXCEPT !.j = fr.j + 1, !.i = 1, !.last_resp = o]
    IN
    IF IsTransportError(o)
    THEN [done |-> TRUE, ret |-> ErrorValue(o), frame |-> fr]
    ELSE IF Accepted(o.status)
    THEN [done |-> TRUE, ret |-> JsonOrEnvelope(o), frame |-> [fr EXCEPT !.last_resp = o]]
    ELSE IF TryNext(o.status)
    THEN IF nxt.j > Len(FieldNames)
         THEN [done |-> TRUE,
               ret |-> LoopExit(o, "No response from versions endpoint"),
               frame |-> [fr EXCEPT !.last_resp = o]]
         ELSE [done |-> FALSE, ret |-> PyNone, frame |-> nxt]
    ELSE [done |-> TRUE, ret |-> JsonOrEnvelope(o), frame |-> [fr EXCEPT !.last_resp = o]]

\* C38 mutant: a transport exception is passed over like a 404
VersionsIterationSkipErrors(fr, o) ==
    LET nxt == IF fr.j < Len(FieldNames)
               THEN [fr EXCEPT !.j = fr.j + 1]
               ELSE [fr EXCEPT !.i = fr.i + 1, !.j = 1]
    IN
    IF IsTransportError(o)
    THEN IF nxt.i > Len(UploadPaths(fr.arg))
         THEN [done |-> TRUE, ret |-> ErrorValue(o), frame |-> fr]
         ELSE [done |-> FALSE, ret |-> PyNone, frame |-> nxt]
    ELSE IF Accepted(o.status)
    THEN [done |-> TRUE, ret |-> JsonOrEnvelope(o), frame |-> [fr EXCEPT !.last_resp = o]]
    ELSE IF TryNext(o.status)
    THEN IF nxt.i > Len(UploadPaths(fr.arg))
         THEN [done |-> TRUE,
               ret |-> LoopExit(o, "No response from versions endpoint"),
               frame |-> [fr EXCEPT !.last_resp = o]]
         ELSE [done |-> FALSE, ret |-> PyNone, frame |-> [nxt EXCEPT !.last_resp = o]]
    ELSE [done |-> TRUE, ret |-> JsonOrEnvelope(o), frame |-> [fr EXCEPT !.last_resp = o]]

\* one iteration of the nested loops of versions_create_folder on outcome o of
\* its POST: [done, ret, frame] (client.py 171-198)
VersionsIteration(fr, o) ==
    LET nxt == IF fr.j < Len(FieldNames)
               THEN [fr EXCEPT !.j = fr.j + 1, !.last_resp = o]
               ELSE [fr EXCEPT !.i = fr.i + 1, !.j = 1, !.last_resp = o]
    IN
    IF IsTransportError(o)
    THEN [done |-> TRUE, ret |-> ErrorValue(o), frame |-> fr]
    ELSE IF Accepted(o.status)
    THEN [done |-> TRUE, ret |-> JsonOrEnvelope(o), frame |-> [fr EXCEPT !.last_resp = o]]
    ELSE IF TryNext(o.status)
    THEN IF nxt.i > Len(UploadPaths(fr.arg))
         THEN [done |-> TRUE,
               ret |-> LoopExit(o, "No response from versions endpoint"),
               frame |-> [fr EXCEPT !.last_resp = o]]
         ELSE [done |-> FALSE, ret |-> PyNone, frame |-> nxt]
    ELSE [done |-> TRUE, ret |-> JsonOrEnvelope(o), frame |-> [fr EXCEPT !.last_resp = o]]

\* C36 mutant: after a 404 the same path is posted to again
ChatIterationRetry(fr, o) ==
    IF IsTransportError(o)
    THEN [done |-> TRUE, ret |-> ErrorValue(o), frame |-> fr]
    ELSE IF TryNext(o.status)
    THEN [done |-> FALSE, ret |-> PyNone, frame |-> [fr EXCEPT !.last_resp = o]]
    ELSE [done |-> TRUE, ret |-> JsonOrEnvelope(o), frame |-> [fr EXCEPT !.last_resp = o]]

\* one iteration of the loop of chat_with_version (client.py 213-236)
ChatIteration(fr, o) ==
    LET nxt == [fr EXCEPT !.i = fr.i + 1, !.last_resp = o]
    IN
    IF IsTransportError(o)
    THEN [done |-> TRUE, ret |-> ErrorValue(o), frame |-> fr]
    ELSE IF Accepted(o.status)
    THEN [done |-> TRUE, ret |-> JsonOrEnvelope(o), frame |-> [fr EXCEPT !.last_resp = o]]
    ELSE IF TryNext(o.status)
    THEN IF nxt.i > Len(ChatPaths(fr.arg))
         THEN [done |-> TRUE,
               ret |-> LoopExit(o, "No response from chats endpoint"),
               frame |-> [fr EXCEPT !.last_resp = o]]
         ELSE [done |-> FALSE, ret |-> PyNone, frame |-> nxt]
    ELSE [done |-> TRUE, ret |-> JsonOrEnvelope(o), frame |-> [fr EXCEPT !.last_resp = o]]

----------------------------------------------------------------------------
(* BevorApiClient.create *)

\* {} 
EmptyDict == [k \in {} |-> None]

\* no candidate loop is running
IdleFrame == [i |-> 0, j |-> 0, last_resp |-> NoResp, arg |-> None]

\* the project id taken from the create-project response (client.py 46-50)
ExtractProjectId(project_resp, current) ==
    Or(Get(project_resp, "id"), Or(Get(project_resp, "project_id"), current))

\* C12 mutant: only the top-level keys of the upload response are read
ExtractVersionIdTopLevel(vr) ==
    Or(Get(vr, "version_mapping_id"),
    Or(Get(vr, "version_id"),
       Get(vr, "id")))

\* the version-mapping id taken from the upload response (client.py 57-65)
ExtractVersionId(vr) ==
    LET data == IF "data" \in DOMAIN vr THEN vr.data ELSE EmptyDict
    IN  Or(Get(vr, "version_mapping_id"),
        Or(Get(vr, "version_id"),
        Or(Get(vr, "id"),
        Or(Get(data, "version_mapping_id"),
        Or(Get(data, "version_id"),
           Get(data, "id"))))))

\* the chat id taken from the chat-open response (client.py 70)
ExtractChatId(chat_resp) ==
    Or(Get(chat_resp, "id"), Get(chat_resp, "chat_id"))

\* `if self.contracts_folder_path:` with project id pid: enter
\* versions_create_folder(contracts_map, pid or ""), or return self (client.py 52-54, 72)
FolderStage(pid) ==
    IF Truthy(contracts_folder_path)
    THEN /\ cpc' = "upload"
         /\ frame' = [FirstIter EXCEPT !.arg = Or(pid, "")]
    ELSE /\ cpc' = "returned"
         /\ frame' = IdleFrame

\* C6 mutant: the chat is opened whatever the upload yielded
ChatStageUnguarded(vmid) ==
    /\ cpc' = "chat"
    /\ frame' = [FirstIter EXCEPT !.arg = vmid]

\* `if self.version_mapping_id:` enter chat_with_version(vmid), or return self
\* (client.py 66-67, 72)
ChatStage(vmid) ==
    IF Truthy(vmid)
    THEN /\ cpc' = "chat"
         /\ frame' = [FirstIter EXCEPT !.arg = vmid]
    ELSE /\ cpc' = "returned"
         /\ frame' = IdleFrame

\* C26 mutant: the create-project request is sent whatever project_id holds
BeginCreateAlways ==
    /\ runs' = runs + 1
    /\ error' = "none"
    /\ ret' = PyNone
    /\ uploadLog' = <<>>
    /\ chatLog' = <<>>
    /\ cpc' = "project"
    /\ stages' = <<"project">>
    /\ frame' = IdleFrame
    /\ UNCHANGED clientVars

\* create() is entered: the create-project request goes to a worker thread when
\* there is no project id, else the folder stage runs at once (client.py 43-44, 52)
BeginCreate ==
    /\ runs' = runs + 1
    /\ error' = "none"
    /\ ret' = PyNone
    /\ uploadLog' = <<>>
    /\ chatLog' = <<>>
    /\ IF ~Truthy(project_id)
       THEN /\ cpc' = "project"
            /\ stages' = <<"project">>
            /\ frame' = IdleFrame
       ELSE /\ stages' = <<>>
            /\ FolderStage(project_id)
    /\ UNCHANGED clientVars

\* the POST /projects request ends and create() resumes (client.py 44-54, 115-123)
ProjectResponse ==
    /\ cpc = "project"
    /\ \E o \in ProjectOutcomes :
          IF IsTransportError(o)
          THEN /\ cpc' = "raised"
               /\ error' = "ConnectionError"
               /\ UNCHANGED <<project_id, last_project_response, frame>>
          ELSE LET project_resp == JsonOrEnvelope(o) IN
               /\ last_project_response' = Diagnostic(project_resp)
               /\ IF IsDict(project_resp)
                  THEN /\ project_id' = ExtractProjectId(project_resp.d, project_id)
                       /\ FolderStage(project_id')
                       /\ error' = error
                  ELSE /\ cpc' = "raised"
                       /\ error' = "AttributeError"
                       /\ UNCHANGED <<project_id, frame>>
    /\ UNCHANGED <<version_mapping_id, chat_id, contracts_folder_path,
                   last_version_response, last_chat_response>>
    /\ UNCHANGED <<ret, stages, uploadLog, chatLog, runs, serverVars>>
    /\ UNCHANGED <<chatVars, devVars, auxVars>>

\* versions_create_folder issues one POST and acts on its outcome (client.py 171-198)
UploadAttempt ==
    /\ cpc = "upload"
    /\ \E o \in UploadOutcomes :
          LET step == VersionsIteration(frame, o) IN
          /\ uploadLog' = Append(uploadLog,
                                 [path |-> UploadPaths(frame.arg)[frame.i],
                                  field |-> FieldNames[frame.j],
                                  pid |-> frame.arg,
                                  status |-> o.status])
          /\ frame' = step.frame
          /\ ret' = step.ret
          /\ cpc' = IF step.done THEN "uploaded" ELSE "upload"
    /\ stages' = IF uploadLog = <<>> THEN Append(stages, "upload") ELSE stages
    /\ UNCHANGED <<clientVars, error, chatLog, runs, serverVars>>
    /\ UNCHANGED <<chatVars, devVars, auxVars>>

\* create() takes the upload's result (client.py 55-67)
UploadDone ==
    /\ cpc = "uploaded"
    /\ last_version_response' = Diagnostic(ret)
    /\ IF IsDict(ret)
       THEN /\ version_mapping_id' = ExtractVersionId(ret.d)
            /\ ChatStage(version_mapping_id')
            /\ error' = error
       ELSE /\ cpc' = "raised"
            /\ error' = "AttributeError"
            /\ frame' = IdleFrame
            /\ UNCHANGED version_mapping_id
    /\ ret' = PyNone
    /\ uploadLog' = <<>>
    /\ UNCHANGED <<project_id, chat_id, contracts_folder_path,
                   last_project_response, last_chat_response>>
    /\ UNCHANGED <<stages, chatLog, runs, serverVars>>
    /\ UNCHANGED <<chatVars, devVars, auxVars>>

\* chat_with_version issues one POST and acts on its outcome (client.py 213-236)
ChatAttempt ==
    /\ cpc = "chat"
    /\ \E o \in ChatOutcomes :
          LET step == ChatIteration(frame, o) IN
          /\ chatLog' = Append(chatLog,
                               [path |-> ChatPaths(frame.arg)[frame.i],
                                vmid |-> frame.arg,
                                status |-> o.status])
          /\ frame' = step.frame
          /\ ret' = step.ret
          /\ cpc' = IF step.done THEN "chatted" ELSE "chat"
    /\ stages' = IF chatLog = <<>> THEN Append(stages, "chat") ELSE stages
    /\ UNCHANGED <<clientVars, error, uploadLog, runs, serverVars>>
    /\ UNCHANGED <<chatVars, devVars, auxVars>>

\* create() takes the chat-open result and returns self (client.py 68-72)
ChatDone ==
    /\ cpc = "chatted"
    /\ last_chat_response' = Diagnostic(ret)
    /\ chat_id' = IF IsDict(ret) THEN ExtractChatId(ret.d) ELSE chat_id
    /\ cpc' = "returned"
    /\ frame' = IdleFrame
    /\ ret' = PyNone
    /\ chatLog' = <<>>
    /\ UNCHANGED <<project_id, version_mapping_id, contracts_folder_path,
                   last_project_response, last_version_response>>
    /\ UNCHANGED <<error, stages, uploadLog, runs, serverVars>>
    /\ UNCHANGED <<chatVars, devVars, auxVars>>

\* the steps of a create() call in progress
CreateStep ==
    \/ ProjectResponse
    \/ UploadAttempt
    \/ UploadDone
    \/ ChatAttempt
    \/ ChatDone

----------------------------------------------------------------------------
(* The client as a library: construction and repeated create() *)

\* the invocations of the server
Callers == 1..NCallers

\* BevorApiClient(...): project id from the argument or BEVOR_PROJECT_ID, else
\* None; the folder path as given (client.py 16-34)
InitClient ==
    /\ project_id \in {None, "", "p0"}
    /\ contracts_folder_path \in {None, "contracts"}
    /\ version_mapping_id = None
    /\ chat_id = None
    /\ last_project_response = PyNone
    /\ last_version_response = PyNone
    /\ last_chat_response = PyNone

\* no create() call yet
InitCreate ==
    /\ cpc = "idle"
    /\ frame = IdleFrame
    /\ ret = PyNone
    /\ error = "none"
    /\ stages = <<>>
    /\ uploadLog = <<>>
    /\ chatLog = <<>>
    /\ runs = 0

\* server.py module state after import (server.py 33-35)
InitServer ==
    /\ _initialized = FALSE
    /\ initialized_client = None
    /\ locked = FALSE
    /\ waiters = <<>>
    /\ pc = [c \in Callers |-> "idle"]
    /\ result = [c \in Callers |-> [kind |-> "none"]]

\* no chat_contract call yet: nothing returned, nothing read
NoResult == [kind |-> "none", text |-> <<>>, detail |-> ""]

InitChat ==
    /\ cc_pc = "idle"
    /\ cc_lines = <<>>
    /\ cc_pos = 0
    /\ full_response = <<>>
    /\ cc_result = NoResult

\* no devtools call yet: no arguments, no subprocess, no outcome
\* the `env` argument: None, or a mapping
NoEnv == [given |-> FALSE, map |-> EmptyDict]
NoCall == [op |-> "none", dir |-> {}, tool |-> None, argv |-> <<>>, timeout |-> 0,
           path |-> None, env |-> NoEnv]
NoProc == [state |-> "none", argv |-> <<>>, code |-> 0, out |-> <<>>, err |-> <<>>,
           count |-> 0, cwd |-> None, env_arg |-> NoEnv, environ |-> EmptyDict]
NoOutcome == [kind |-> "none"]

InitDevTools ==
    /\ dt_pc = "idle"
    /\ dt_call = NoCall
    /\ dt_adapter = None
    /\ dt_proc = NoProc
    /\ dt_result = NoOutcome

\* DEFAULT_ADAPTERS (service.py 8-12): the adapters by name, in list order
DEFAULT_ADAPTERS == <<"foundry", "hardhat", "truffle">>

\* concurrent invocations of one DevToolsService instance
NJobs == 2
Jobs == 1..NJobs

\* an invocation that has not started; no locator call yet
NoJob == [pc |-> "idle", call |-> NoCall, proc |-> NoProc, result |-> NoOutcome]
NoEtl == [pc |-> "idle", tree |-> EmptyDict, order |-> <<>>,
          result |-> [found |-> FALSE, path |-> ""], map |-> {}]

\* DevToolsService(): self.adapters = adapters or DEFAULT_ADAPTERS (service.py 16-17)
InitAux ==
    /\ etl = NoEtl
    /\ adapters = DEFAULT_ADAPTERS
    /\ dt_jobs = [j \in Jobs |-> NoJob]

Init ==
    /\ InitClient
    /\ InitCreate
    /\ InitServer
    /\ InitChat
    /\ InitDevTools
    /\ InitAux

\* the state the chat exchange and the devtools start from: they read none of
\* the client's ids, which are left unset
InitLocal ==
    /\ Init
    /\ project_id = None
    /\ contracts_folder_path = None

\* a session after its bootstrap, as create() leaves it (client.py 43-72):
\* complete, degraded without a chat, or degraded without a version
InitSession ==
    /\ InitCreate
    /\ InitServer
    /\ InitChat
    /\ InitDevTools
    /\ InitAux
    /\ project_id = "p0"
    /\ contracts_folder_path = "contracts"
    /\ last_project_response = PyNone
    /\ \/ /\ version_mapping_id = "v1"
          /\ last_version_response = PyDict([version_mapping_id |-> "v1"])
          /\ chat_id = "c1"
          /\ last_chat_response = PyDict([id |-> "c1"])
       \/ /\ version_mapping_id = "v1"
          /\ last_version_response = PyDict([version_mapping_id |-> "v1"])
          /\ chat_id = None
          /\ last_chat_response = PyDict([detail |-> "not found"])
       \/ /\ version_mapping_id = None
          /\ last_version_response = PyDict([detail |-> "not found"])
          /\ chat_id = None
          /\ last_chat_response = PyNone

\* a caller of the library awaits client.create() (or create_sync()) on the object,
\* the first time or again after an earlier call ended (client.py 37-79)
TestCreate ==
    /\ cpc \in {"idle", "returned", "raised"}
    /\ runs < MaxRuns
    /\ BeginCreate
    /\ UNCHANGED serverVars
    /\ UNCHANGED <<chatVars, devVars, auxVars>>

NextClient ==
    \/ TestCreate
    \/ CreateStep

SpecClient == Init /\ [][NextClient]_vars

----------------------------------------------------------------------------
(* The server: _ensure_client_initialized_async and the handlers *)

\* another task can run on the event loop: create() is not executing, or is
\* suspended in asyncio.to_thread awaiting POST /projects; from there to its end
\* create() runs without an await (client.py 94-102, 52-72)
LoopFree == cpc \in {"idle", "project"}

\* C2 mutant: the flag is set before create() has run
StartBootstrapFlagFirst(c) ==
    /\ BeginCreate
    /\ locked' = TRUE
    /\ pc' = [pc EXCEPT ![c] = "creating"]
    /\ _initialized' = TRUE
    /\ UNCHANGED <<initialized_client, result>>

\* with the lock held and the flag unset, the bootstrap starts:
\* `initialized_client = await client.create()` is entered (server.py 45-46)
StartBootstrap(c) ==
    /\ BeginCreate
    /\ locked' = TRUE
    /\ pc' = [pc EXCEPT ![c] = "creating"]
    /\ UNCHANGED <<_initialized, initialized_client, result>>

\* an invocation (health_check or a chat tool) calls
\* _ensure_client_initialized_async: the flag check, then the lock, which is taken
\* without suspending when it is free and nobody waits (server.py 37-46, 54, 86)
EnsureEnter(c) ==
    /\ pc[c] = "idle"
    /\ LoopFree
    /\ IF _initialized
       THEN /\ pc' = [pc EXCEPT ![c] = "past"]
            /\ UNCHANGED <<_initialized, initialized_client, locked, waiters, result>>
            /\ UNCHANGED <<clientVars, createVars>>
       ELSE IF ~locked /\ waiters = <<>>
       THEN /\ StartBootstrap(c)
            /\ waiters' = waiters
       ELSE /\ waiters' = Append(waiters, c)
            /\ pc' = [pc EXCEPT ![c] = "waiting"]
            /\ UNCHANGED <<_initialized, initialized_client, locked, result>>
            /\ UNCHANGED <<clientVars, createVars>>
    /\ UNCHANGED <<chatVars, devVars, auxVars>>

\* the first waiter is woken with the lock released: it takes the lock, re-checks
\* the flag and returns (releasing the lock) or starts the bootstrap
\* (server.py 42-46)
LockAcquired(c) ==
    /\ pc[c] = "waiting"
    /\ LoopFree
    /\ ~locked
    /\ waiters /= <<>>
    /\ Head(waiters) = c
    /\ waiters' = Tail(waiters)
    /\ IF _initialized
       THEN /\ pc' = [pc EXCEPT ![c] = "past"]
            /\ UNCHANGED <<_initialized, initialized_client, locked, result>>
            /\ UNCHANGED <<clientVars, createVars>>
       ELSE StartBootstrap(c)
    /\ UNCHANGED <<chatVars, devVars, auxVars>>

\* C34 mutant: create() returned and the flag is left unset
EnsureFinishNoFlag(c) ==
    /\ pc[c] = "creating"
    /\ cpc = "returned"
    /\ initialized_client' = "client"
    /\ locked' = FALSE
    /\ pc' = [pc EXCEPT ![c] = "past"]
    /\ cpc' = "idle"
    /\ UNCHANGED <<_initialized, waiters, result, clientVars>>
    /\ UNCHANGED <<frame, ret, error, stages, uploadLog, chatLog, runs>>
    /\ UNCHANGED <<chatVars, devVars, auxVars>>

\* create() returned: the result is stored, the flag is set, the lock is released
\* (server.py 46-47)
EnsureFinish(c) ==
    /\ pc[c] = "creating"
    /\ cpc = "returned"
    /\ initialized_client' = "client"
    /\ _initialized' = TRUE
    /\ locked' = FALSE
    /\ pc' = [pc EXCEPT ![c] = "past"]
    /\ cpc' = "idle"
    /\ UNCHANGED <<waiters, result, clientVars>>
    /\ UNCHANGED <<frame, ret, error, stages, uploadLog, chatLog, runs>>
    /\ UNCHANGED <<chatVars, devVars, auxVars>>

\* C33 mutant: the exception propagates with the lock still held
EnsureRaiseLockHeld(c) ==
    /\ pc[c] = "creating"
    /\ cpc = "raised"
    /\ pc' = [pc EXCEPT ![c] = "raised"]
    /\ result' = [result EXCEPT ![c] = [kind |-> "exception", type |-> error]]
    /\ cpc' = "idle"
    /\ UNCHANGED <<_initialized, initialized_client, locked, waiters, clientVars>>
    /\ UNCHANGED <<frame, ret, error, stages, uploadLog, chatLog, runs>>
    /\ UNCHANGED <<chatVars, devVars, auxVars>>

\* create() raised: the exception leaves the `async with` block, which releases
\* the lock, and propagates out of the handler; line 47 is not reached
\* (server.py 42-47)
EnsureRaise(c) ==
    /\ pc[c] = "creating"
    /\ cpc = "raised"
    /\ locked' = FALSE
    /\ pc' = [pc EXCEPT ![c] = "raised"]
    /\ result' = [result EXCEPT ![c] = [kind |-> "exception", type |-> error]]
    /\ cpc' = "idle"
    /\ UNCHANGED <<_initialized, initialized_client, waiters, clientVars>>
    /\ UNCHANGED <<frame, ret, error, stages, uploadLog, chatLog, runs>>
    /\ UNCHANGED <<chatVars, devVars, auxVars>>

\* what health_check reports as bevor_api.healthy (server.py 56-61)
Healthy ==
    /\ project_id /= None
    /\ version_mapping_id /= None
    /\ chat_id /= None

\* the dict health_check returns: status is computed from bevor_api_healthy and
\* then assigned "healthy" (server.py 63-64); the ids and the folder path are
\* read from the client (server.py 66-82)
HealthReport ==
    [kind |-> "report",
     status |-> "healthy",
     contracts_folder_path |-> contracts_folder_path,
     healthy |-> Healthy,
     project_id |-> project_id,
     version_mapping_id |-> version_mapping_id,
     chat_id |-> chat_id]

\* past _ensure_client_initialized_async the handler runs: health_check reads the
\* three ids and returns its report; a chat tool calls c.chat_contract(message),
\* one positional argument for the two parameters (chat_id, message), which
\* raises TypeError (server.py 55-82, 88-111; client.py 239)
Handler(c) ==
    /\ pc[c] = "past"
    /\ LoopFree
    /\ \E kind \in {"health", "chat"} :
          IF kind = "health"
          THEN /\ pc' = [pc EXCEPT ![c] = "done"]
               /\ result' = [result EXCEPT ![c] = HealthReport]
          ELSE /\ pc' = [pc EXCEPT ![c] = "raised"]
               /\ result' = [result EXCEPT ![c] = [kind |-> "exception", type |-> "TypeError"]]
    /\ UNCHANGED <<_initialized, initialized_client, locked, waiters>>
    /\ UNCHANGED <<clientVars, createVars>>
    /\ UNCHANGED <<chatVars, devVars, auxVars>>

Next ==
    \/ \E c \in Callers : EnsureEnter(c)
    \/ \E c \in Callers : LockAcquired(c)
    \/ \E c \in Callers : EnsureFinish(c)
    \/ \E c \in Callers : EnsureRaise(c)
    \/ \E c \in Callers : Handler(c)
    \/ CreateStep

Spec == Init /\ [][Next]_vars

----------------------------------------------------------------------------
(* BevorApiClient.chat_contract: the chat exchange and its event stream *)

\* lines of one streamed chat response, at most
MaxLines == 3

\* the least and the greatest element of a non-empty set of integers
Least(S) == CHOOSE x \in S : \A y \in S : x <= y
Greatest(S) == CHOOSE x \in S : \A y \in S : x >= y

\* Python text is a sequence of characters, " " standing for whitespace;
\* str.strip() removes the whitespace at both ends
Strip(s) ==
    LET keep == {k \in 1..Len(s) : s[k] /= " "}
    IN  IF keep = {} THEN <<>> ELSE SubSeq(s, Least(keep), Greatest(keep))

\* what json.loads makes of the payload of a "data: " line: the [DONE] sentinel
\* (not parsed), a JSON object, another JSON value, text that is not JSON
Done == [t |-> "done", d |-> EmptyDict, s |-> <<>>]
Chunk(d) == [t |-> "dict", d |-> d, s |-> <<>>]
OtherJson == [t |-> "json", d |-> EmptyDict, s |-> <<>>]
NotJson(s) == [t |-> "raw", d |-> EmptyDict, s |-> s]

\* a line of iter_lines(): empty, without the "data: " prefix, with it
EmptyLine == [kind |-> "empty", text |-> <<>>, payload |-> OtherJson]
PlainLine(s) == [kind |-> "plain", text |-> s, payload |-> OtherJson]
DataLine(p) == [kind |-> "data", text |-> <<>>, payload |-> p]

\* the lines a backend may stream
StreamLines ==
    { EmptyLine,
      PlainLine(<<"a">>),
      PlainLine(<<" ", "b">>),
      DataLine(Done),
      DataLine(Chunk([content |-> <<"a">>])),
      DataLine(Chunk([text |-> <<" ", "b">>])),
      DataLine(Chunk([message |-> <<"b", " ">>])),
      DataLine(Chunk([response |-> <<"a">>])),
      DataLine(Chunk([content |-> <<>>, text |-> <<"b">>])),
      DataLine(Chunk([content |-> <<"a">>, response |-> <<"b">>])),
      DataLine(Chunk([event_type |-> <<"a">>])),
      DataLine(OtherJson),
      DataLine(NotJson(<<"b">>)) }

\* the bodies of a 200 response: every sequence of at most MaxLines lines
Streams == UNION { [1..n -> StreamLines] : n \in 0..MaxLines }

\* what requests.post(url, stream=True) may end in: an exception, a status other
\* than 200 with or without a JSON body, a 200 with a stream of lines
ChatReplies ==
    { [status |-> 0, json |-> FALSE, lines |-> <<>>],
      [status |-> 404, json |-> TRUE, lines |-> <<>>],
      [status |-> 502, json |-> FALSE, lines |-> <<>>] }
    \cup { [status |-> 200, json |-> FALSE, lines |-> l] : l \in Streams }

\* what response.json() of the fallback may end in once lines have been read
\* from the stream: a parsed document, ValueError, or RuntimeError (requests:
\* the content of a streamed response was already consumed)
FallbackOutcomes == {"json", "ValueError", "RuntimeError"}

\* the values a chat_contract call ends in
ErrorResult(detail) == [kind |-> "error", text |-> <<>>, detail |-> detail]
ResponseResult(text) == [kind |-> "response", text |-> text, detail |-> ""]
JsonResult == [kind |-> "json", text |-> <<>>, detail |-> "response.json()"]
Raised(exc) == [kind |-> "exception", text |-> <<>>, detail |-> exc]

\* dict.get(k) on a chunk, None and "" both read as the empty text
GetText(d, k) == IF k \in DOMAIN d THEN d[k] ELSE <<>>

\* `x or y` on texts
OrText(x, y) == IF x /= <<>> THEN x ELSE y

\* C14 mutant: only the key content is read
ChunkContentOnly(d) == GetText(d, "content")

\* chunk_data.get("content") or ... or chunk_data.get("response") (client.py 282-287)
ChunkContent(d) ==
    OrText(GetText(d, "content"),
    OrText(GetText(d, "text"),
    OrText(GetText(d, "message"),
           GetText(d, "response"))))

\* the text one iteration of the loop appends to full_response (client.py 272-293)
Appended(line) ==
    IF line.kind = "empty" THEN <<>>
    ELSE IF line.kind = "plain" THEN line.text
    ELSE IF line.payload.t = "dict" THEN ChunkContent(line.payload.d)
    ELSE IF line.payload.t = "raw" THEN line.payload.s
    ELSE <<>>

\* chat_contract(message): one positional argument for the parameters
\* (chat_id, message), as server.py 96 and test_client.py 89 call it
ChatContractBadCall ==
    /\ cc_pc = "idle"
    /\ cc_pc' = "raised"
    /\ cc_result' = Raised("TypeError")
    /\ UNCHANGED <<cc_lines, cc_pos, full_response>>
    /\ UNCHANGED <<clientVars, createVars, serverVars, devVars, auxVars>>

\* chat_contract(chat_id, message) up to the first line of the stream
\* (client.py 246-271)
ChatContractCall ==
    /\ cc_pc = "idle"
    /\ \E o \in ChatReplies :
          IF o.status = 0
          THEN /\ cc_pc' = "returned"
               /\ cc_result' = ErrorResult("ConnectionError")
               /\ UNCHANGED <<cc_lines, cc_pos>>
          ELSE IF o.status /= 200
          THEN /\ cc_pc' = "returned"
               /\ cc_result' = ErrorResult(IF o.json THEN "response.json()" ELSE "HTTP status: text")
               /\ UNCHANGED <<cc_lines, cc_pos>>
          ELSE /\ cc_pc' = "streaming"
               /\ cc_lines' = o.lines
               /\ cc_pos' = 1
               /\ UNCHANGED cc_result
    /\ full_response' = <<>>
    /\ UNCHANGED <<clientVars, createVars, serverVars, devVars, auxVars>>

\* one iteration of `for line in response.iter_lines()` (client.py 271-293)
StreamLine ==
    /\ cc_pc = "streaming"
    /\ cc_pos <= Len(cc_lines)
    /\ LET line == cc_lines[cc_pos] IN
       IF line.kind = "data" /\ line.payload.t = "done"
       THEN /\ cc_pc' = "drained"
            /\ UNCHANGED <<cc_pos, full_response>>
       ELSE /\ full_response' = full_response \o Appended(line)
            /\ cc_pos' = cc_pos + 1
            /\ UNCHANGED cc_pc
    /\ UNCHANGED <<cc_lines, cc_result>>
    /\ UNCHANGED <<clientVars, createVars, serverVars, devVars, auxVars>>

\* the stream ends: iter_lines() is exhausted (client.py 271)
StreamEnd ==
    /\ cc_pc = "streaming"
    /\ cc_pos > Len(cc_lines)
    /\ cc_pc' = "drained"
    /\ UNCHANGED <<cc_lines, cc_pos, full_response, cc_result>>
    /\ UNCHANGED <<clientVars, createVars, serverVars, devVars, auxVars>>

\* reading the stream raises (connection lost, bad chunk): the loop's
\* `except Exception` returns the error (client.py 294-295)
StreamError ==
    /\ cc_pc = "streaming"
    /\ cc_pc' = "returned"
    /\ cc_result' = ErrorResult("Error processing stream")
    /\ UNCHANGED <<cc_lines, cc_pos, full_response>>
    /\ UNCHANGED <<clientVars, createVars, serverVars, devVars, auxVars>>

\* C39 mutant: the reply is recorded in last_chat_response
ChatContractReturnRecorded ==
    /\ cc_pc = "drained"
    /\ cc_pc' = "returned"
    /\ cc_result' = ResponseResult(Strip(full_response))
    /\ last_chat_response' = PyDict([response |-> "text"])
    /\ UNCHANGED <<cc_lines, cc_pos, full_response>>
    /\ UNCHANGED <<project_id, version_mapping_id, chat_id, contracts_folder_path,
                   last_project_response, last_version_response>>
    /\ UNCHANGED <<createVars, serverVars, devVars, auxVars>>

\* after the loop: the stripped text when there is any, else the fallback
\* response.json() (client.py 297-304)
ChatContractReturn ==
    /\ cc_pc = "drained"
    /\ IF Strip(full_response) /= <<>>
       THEN /\ cc_pc' = "returned"
            /\ cc_result' = ResponseResult(Strip(full_response))
       ELSE \E fb \in FallbackOutcomes :
               /\ cc_pc' = IF fb = "RuntimeError" THEN "raised" ELSE "returned"
               /\ cc_result' = IF fb = "json" THEN JsonResult
                               ELSE IF fb = "ValueError"
                               THEN ErrorResult("No valid response received")
                               ELSE Raised("RuntimeError")
    /\ UNCHANGED <<cc_lines, cc_pos, full_response>>
    /\ UNCHANGED <<clientVars, createVars, serverVars, devVars, auxVars>>

NextChat ==
    \/ ChatContractBadCall
    \/ ChatContractCall
    \/ StreamLine
    \/ StreamEnd
    \/ StreamError
    \/ ChatContractReturn

SpecChat == InitLocal /\ [][NextChat]_vars

\* chat_contract on a bootstrapped session
SpecChatSession == InitSession /\ [][NextChat]_vars

----------------------------------------------------------------------------
(* services/devtools: the adapters, DevToolsService, run_command and the *)
(* facade tools build_command / test_command                             *)

\* chunks of output a subprocess writes before it exits or is killed, at most
MaxChunks == 2

\* run_command's default timeout in seconds, the timeout the runner test
\* passes, and the exit code reported on a timeout
DefaultTimeout == 900
TestTimeout == 1
TimeoutCode == 124

\* the files the adapters look for; a project directory is the set of those it
\* holds
Markers ==
    { "foundry.toml",
      "hardhat.config.js", "hardhat.config.ts", "node_modules/.bin/hardhat",
      "truffle-config.js", "truffle.js", "node_modules/.bin/truffle" }
\* a file no adapter looks for: a forge binary
Files == Markers \cup {"bin/forge"}
ProjectDirs == SUBSET Files

\* the directories build and test are run on
SpawnDirs ==
    { {}, {"bin/forge"}, {"foundry.toml"}, {"foundry.toml", "hardhat.config.js"},
      {"hardhat.config.ts", "truffle-config.js"}, {"node_modules/.bin/hardhat"},
      {"truffle.js"} }

\* the path given as project_dir, and server.py's _resolved_project_path
GivenPath == "/project"
ResolvedPath == "/resolved"

\* os.environ of the server process
OsEnviron == [PATH |-> "/usr/bin", HOME |-> "/root"]

\* the values of the `env` argument
Env(map) == [given |-> TRUE, map |-> map]
EnvArgs == {NoEnv, Env([NODE_ENV |-> "test"]), Env([PATH |-> "/custom", VERBOSE |-> "1"])}

\* C25 mutant: the inherited value wins
MergeInheritedFirst(base, extra) ==
    [k \in DOMAIN base \cup DOMAIN extra |-> IF k \in DOMAIN base THEN base[k] ELSE extra[k]]

\* {**base, **extra} (runner.py 19)
Merge(base, extra) ==
    [k \in DOMAIN base \cup DOMAIN extra |-> IF k \in DOMAIN extra THEN extra[k] ELSE base[k]]

\* `env or {}` (runner.py 19)
EnvOrEmpty(env) == IF env.given /\ DOMAIN env.map /= {} THEN env.map ELSE EmptyDict

\* C21 mutant: a forge binary makes Foundry applicable as well
is_applicableWithBinary(adapter, dir) ==
    IF adapter = "foundry" THEN "foundry.toml" \in dir \/ "bin/forge" \in dir
    ELSE IF adapter = "hardhat"
    THEN \/ "hardhat.config.js" \in dir \/ "hardhat.config.ts" \in dir
         \/ "node_modules/.bin/hardhat" \in dir
    ELSE \/ "truffle-config.js" \in dir \/ "truffle.js" \in dir
         \/ "node_modules/.bin/truffle" \in dir

\* adapter.is_applicable(project_dir) (foundry.py 9-12, hardhat.py 8-12,
\* truffle.py 8-12)
is_applicable(adapter, dir) ==
    IF adapter = "foundry" THEN "foundry.toml" \in dir
    ELSE IF adapter = "hardhat"
    THEN \/ "hardhat.config.js" \in dir \/ "hardhat.config.ts" \in dir
         \/ "node_modules/.bin/hardhat" \in dir
    ELSE \/ "truffle-config.js" \in dir \/ "truffle.js" \in dir
         \/ "node_modules/.bin/truffle" \in dir

\* adapter.build_command(project_dir), adapter.test_command(project_dir)
build_command(adapter) ==
    IF adapter = "foundry" THEN <<"forge", "build">>
    ELSE IF adapter = "hardhat" THEN <<"npx", "hardhat", "compile">>
    ELSE <<"npx", "truffle", "build">>
test_command(adapter) ==
    IF adapter = "foundry" THEN <<"forge", "test">>
    ELSE IF adapter = "hardhat" THEN <<"npx", "hardhat", "test">>
    ELSE <<"npx", "truffle", "test">>

\* the values of the `tool` argument: absent, empty, adapter names in several
\* spellings, a name no adapter has
ToolArgs == {None, "", "foundry", "FOUNDRY", "Hardhat", "truffle", "forge"}

\* str.lower() on those names
Lower(s) ==
    IF s = "FOUNDRY" THEN "foundry"
    ELSE IF s = "Hardhat" THEN "hardhat"
    ELSE IF s = "Src" THEN "src"
    ELSE IF s = ".SOL" THEN ".sol"
    ELSE s

\* outcomes: an adapter, an exception, run_command's tuple
Adapter(name) == [kind |-> "adapter", name |-> name]
Exception(type, msg, tool, supported) ==
    [kind |-> "exception", type |-> type, msg |-> msg, tool |-> tool, supported |-> supported]
RunTuple(code, out, err) == [kind |-> "tuple", code |-> code, out |-> out, err |-> err]

\* C16 mutant: the last applicable adapter wins
detectLast(dir) ==
    LET candidates == SelectSeq(DEFAULT_ADAPTERS, LAMBDA a : is_applicable(a, dir))
    IN  IF candidates = <<>>
        THEN Exception("RuntimeError", "No supported dev tool detected in project directory",
                       None, <<>>)
        ELSE Adapter(candidates[Len(candidates)])

\* DevToolsService.detect (service.py 19-26)
detect(dir) ==
    LET candidates == SelectSeq(DEFAULT_ADAPTERS, LAMBDA a : is_applicable(a, dir))
    IN  IF candidates = <<>>
        THEN Exception("RuntimeError", "No supported dev tool detected in project directory",
                       None, <<>>)
        ELSE Adapter(candidates[1])

\* C17 mutant: the name is compared as written
GetAdapterCaseSensitive(dir, tool) ==
    IF Truthy(tool)
    THEN LET matches == SelectSeq(DEFAULT_ADAPTERS, LAMBDA a : a = tool)
         IN  IF matches /= <<>> THEN Adapter(matches[1])
             ELSE Exception("ValueError", "Unknown tool", tool, DEFAULT_ADAPTERS)
    ELSE detect(dir)

\* DevToolsService._get_adapter (service.py 32-38)
_get_adapter(dir, tool) ==
    IF Truthy(tool)
    THEN LET matches == SelectSeq(DEFAULT_ADAPTERS, LAMBDA a : Lower(a) = Lower(tool))
         IN  IF matches /= <<>> THEN Adapter(matches[1])
             ELSE Exception("ValueError", "Unknown tool", tool, DEFAULT_ADAPTERS)
    ELSE detect(dir)

\* C20 mutant: ok for every exit code that is not a signal
ExecOkNonNegative(command, tuple) ==
    [kind |-> "CommandResult", ok |-> tuple.code >= 0, code |-> tuple.code,
     stdout |-> tuple.out, stderr |-> tuple.err, command |-> command]

\* DevToolsService._exec: the CommandResult of run_command's tuple (service.py 28-30)
_exec(command, tuple) ==
    [kind |-> "CommandResult", ok |-> tuple.code = 0, code |-> tuple.code,
     stdout |-> tuple.out, stderr |-> tuple.err, command |-> command]

\* the dict build_command / test_command return (server.py 133-141, 148-156)
ToolReply(res, path, tool) ==
    [kind |-> "dict", ok |-> res.ok, code |-> res.code, stdout |-> res.stdout,
     stderr |-> res.stderr, command |-> res.command, project_dir |-> path,
     tool |-> Or(tool, "auto")]

\* the operations: of the service, of the facade, and run_command itself
ServiceOps == {"build", "test"}
FacadeOps == {"build_command", "test_command"}
ResolveOps == {"detect", "_get_adapter"}
SpawnOps == ServiceOps \cup FacadeOps \cup {"run_command"}

\* C22 mutant: test runs the build command
CommandOfBuildOnly(op, adapter) == build_command(adapter)

\* the argv a build or test operation runs with the adapter
CommandOf(op, adapter) ==
    IF op \in {"build", "build_command"} THEN build_command(adapter)
    ELSE test_command(adapter)

\* what the operation returns once run_command has returned its tuple
OutcomeOf(call, tuple) ==
    IF call.op = "run_command" THEN tuple
    ELSE IF call.op \in ServiceOps THEN _exec(call.argv, tuple)
    ELSE ToolReply(_exec(call.argv, tuple), call.path, call.tool)

\* the exit codes of a subprocess: success, failure, 124 of its own, death by
\* a signal
ExitCodes == {0, 1, TimeoutCode, -15}

\* f"Timeout after {timeout}s\n" (runner.py 29)
TimeoutMarker(timeout) == "Timeout after " \o ToString(timeout) \o "s\n"

\* subprocess.Popen(command, ...): the process runs, or the spawn fails and the
\* exception leaves run_command and its callers (runner.py 16-23)
Spawn(call, spawned) ==
    /\ dt_call' = call
    /\ IF spawned
       THEN /\ dt_pc' = "spawned"
            /\ dt_proc' = [state |-> "running", argv |-> call.argv, code |-> 0,
                           out |-> <<>>, err |-> <<>>,
                           count |-> dt_proc.count + 1, cwd |-> call.path,
                           env_arg |-> call.env,
                           environ |-> Merge(OsEnviron, EnvOrEmpty(call.env))]
            /\ dt_result' = NoOutcome
       ELSE /\ dt_pc' = "raised"
            /\ dt_proc' = NoProc
            /\ dt_result' = Exception("OSError", "spawn failed", None, <<>>)

\* adapter.is_applicable(project_dir) called on an adapter, as the adapter tests
\* do (foundry.py 9-12, hardhat.py 8-12, truffle.py 8-12)
AdapterProbe ==
    /\ dt_pc = "idle"
    /\ \E k \in 1..Len(DEFAULT_ADAPTERS), dir \in ProjectDirs :
          /\ dt_call' = [NoCall EXCEPT !.op = "is_applicable", !.dir = dir,
                                       !.tool = DEFAULT_ADAPTERS[k], !.path = GivenPath]
          /\ dt_result' = [kind |-> "bool", value |-> is_applicable(DEFAULT_ADAPTERS[k], dir)]
    /\ dt_pc' = "returned"
    /\ UNCHANGED <<dt_adapter, dt_proc>>
    /\ UNCHANGED <<clientVars, createVars, serverVars, chatVars, auxVars>>

\* a call of detect, _get_adapter, build, test on the service or of build_command,
\* test_command on the facade, up to the adapter's result or the spawn of the
\* subprocess; the facade replaces a missing project_dir by the resolved path
\* and passes no env (service.py 19-46, server.py 129-156)
DevToolsCall ==
    /\ dt_pc = "idle"
    /\ \E op \in ResolveOps \cup ServiceOps \cup FacadeOps, tool \in ToolArgs,
          spawned \in BOOLEAN :
       \E dir \in IF op \in ResolveOps THEN ProjectDirs ELSE SpawnDirs,
          env \in IF op \in ServiceOps THEN EnvArgs ELSE {NoEnv},
          project_dir \in IF op \in FacadeOps THEN {None, GivenPath} ELSE {GivenPath} :
          LET arg == IF op = "detect" THEN None ELSE tool
              resolved == IF op = "detect" THEN detect(dir) ELSE _get_adapter(dir, tool)
              call == [op |-> op, dir |-> dir, tool |-> arg, argv |-> <<>>,
                       timeout |-> DefaultTimeout,
                       path |-> Or(project_dir, ResolvedPath), env |-> env]
          IN  IF resolved.kind = "exception"
              THEN /\ dt_pc' = "raised"
                   /\ dt_call' = call
                   /\ dt_result' = resolved
                   /\ UNCHANGED <<dt_adapter, dt_proc>>
              ELSE /\ dt_adapter' = resolved.name
                   /\ IF op \in ResolveOps
                      THEN /\ dt_pc' = "returned"
                           /\ dt_call' = call
                           /\ dt_result' = resolved
                           /\ UNCHANGED dt_proc
                      ELSE Spawn([call EXCEPT !.argv = CommandOf(op, resolved.name)], spawned)
    /\ UNCHANGED <<clientVars, createVars, serverVars, chatVars, auxVars>>

\* run_command called directly, as the runner tests do (runner.py 6-23)
RunCommandCall ==
    /\ dt_pc = "idle"
    /\ \E argv \in {<<"echo", "success">>, <<"false">>, <<"sleep", "10">>},
          timeout \in {TestTimeout, DefaultTimeout}, env \in EnvArgs, spawned \in BOOLEAN :
          Spawn([op |-> "run_command", dir |-> {}, tool |-> None, argv |-> argv,
                 timeout |-> timeout, path |-> GivenPath, env |-> env], spawned)
    /\ UNCHANGED dt_adapter
    /\ UNCHANGED <<clientVars, createVars, serverVars, chatVars, auxVars>>

\* the subprocess writes a chunk to its stdout or its stderr
ProcWrite ==
    /\ dt_proc.state = "running"
    /\ Len(dt_proc.out) + Len(dt_proc.err) < MaxChunks
    /\ \/ dt_proc' = [dt_proc EXCEPT !.out = Append(@, "o")]
       \/ dt_proc' = [dt_proc EXCEPT !.err = Append(@, "e")]
    /\ UNCHANGED <<dt_pc, dt_call, dt_adapter, dt_result>>
    /\ UNCHANGED <<clientVars, createVars, serverVars, chatVars, auxVars>>

\* the subprocess exits
ProcExit ==
    /\ dt_proc.state = "running"
    /\ \E code \in ExitCodes : dt_proc' = [dt_proc EXCEPT !.state = "exited", !.code = code]
    /\ UNCHANGED <<dt_pc, dt_call, dt_adapter, dt_result>>
    /\ UNCHANGED <<clientVars, createVars, serverVars, chatVars, auxVars>>

\* proc.communicate(timeout) returns: run_command returns (returncode, out, err)
\* and its callers build their result (runner.py 25, 30)
CommunicateReturn ==
    /\ dt_pc = "spawned"
    /\ dt_proc.state = "exited"
    /\ dt_pc' = "returned"
    /\ dt_result' = OutcomeOf(dt_call, RunTuple(dt_proc.code, dt_proc.out, dt_proc.err))
    /\ UNCHANGED <<dt_call, dt_adapter, dt_proc>>
    /\ UNCHANGED <<clientVars, createVars, serverVars, chatVars, auxVars>>

\* C19 mutant: the timeout is reported and the process is left running
CommunicateTimeoutNoKill ==
    /\ dt_pc = "spawned"
    /\ dt_proc.state = "running"
    /\ dt_pc' = "returned"
    /\ dt_result' = OutcomeOf(dt_call,
                              RunTuple(TimeoutCode, dt_proc.out,
                                       <<TimeoutMarker(dt_call.timeout)>> \o dt_proc.err))
    /\ UNCHANGED <<dt_call, dt_adapter, dt_proc>>
    /\ UNCHANGED <<clientVars, createVars, serverVars, chatVars, auxVars>>

\* proc.communicate(timeout) raises TimeoutExpired: the process is killed, its
\* output drained, and run_command returns 124 (runner.py 26-29)
CommunicateTimeout ==
    /\ dt_pc = "spawned"
    /\ dt_proc.state = "running"
    /\ dt_proc' = [dt_proc EXCEPT !.state = "killed", !.code = -9]
    /\ dt_pc' = "returned"
    /\ dt_result' = OutcomeOf(dt_call,
                              RunTuple(TimeoutCode, dt_proc.out,
                                       <<TimeoutMarker(dt_call.timeout)>> \o dt_proc.err))
    /\ UNCHANGED <<dt_call, dt_adapter>>
    /\ UNCHANGED <<clientVars, createVars, serverVars, chatVars, auxVars>>

NextDevTools ==
    \/ AdapterProbe
    \/ DevToolsCall
    \/ RunCommandCall
    \/ ProcWrite
    \/ ProcExit
    \/ CommunicateReturn
    \/ CommunicateTimeout

SpecDevTools == InitLocal /\ [][NextDevTools]_vars

----------------------------------------------------------------------------
(* find_contracts_folder_in_directory (utils/solidity_etl.py 5-43) *)

\* the most files with a .sol or .SOL extension a directory holds
MaxSol == 2

\* the directories of a project tree, by path below the project root "/"
TreeDirs == {"/", "/contracts", "/lib", "/lib/Src", "/test", "/test/src"}

\* Path(root).name
DirName(d) ==
    IF d = "/" THEN "proj"
    ELSE IF d = "/contracts" THEN "contracts"
    ELSE IF d = "/lib" THEN "lib"
    ELSE IF d = "/lib/Src" THEN "Src"
    ELSE IF d = "/test" THEN "test"
    ELSE "src"

\* the sub-directories of a directory below the root
SubDirs(d) ==
    IF d = "/lib" THEN <<"/lib/Src">>
    ELSE IF d = "/test" THEN <<"/test/src">>
    ELSE <<>>

\* the orders in which os.walk may list the sub-directories of the root
RootOrders ==
    { o \in [1..3 -> {"/contracts", "/lib", "/test"}] : \A i, j \in 1..3 : o[i] = o[j] => i = j }

\* the files of a directory with n contract sources: a README and n files
\* whose extension is .sol or .SOL in turn
FilesOf(n) ==
    {[stem |-> "README", ext |-> ".md"]}
        \cup {[stem |-> ToString(i), ext |-> IF i % 2 = 1 THEN ".sol" ELSE ".SOL"] : i \in 1..n}

\* the project trees: the files of each directory
Trees == [TreeDirs -> {FilesOf(n) : n \in 0..MaxSol}]

\* sum(1 for f in files if f.lower().endswith('.sol')) (solidity_etl.py 27)
sol_count(files) == Cardinality({f \in files : Lower(f.ext) = ".sol"})

\* C31 mutant: no sub-directory is skipped
PrunedNone(dirs) == dirs

\* dirs[:] = [d for d in dirs if d not in {...}] (solidity_etl.py 32)
Pruned(dirs) ==
    SelectSeq(dirs, LAMBDA d : DirName(d) \notin {".git", "node_modules", "build", "test"})

\* the directories os.walk yields, top-down, in order (solidity_etl.py 25-32)
Walked(order) ==
    LET top == Pruned(order)
        below[k \in 0..Len(top)] ==
            IF k = 0 THEN <<>>
            ELSE below[k - 1] \o <<top[k]>> \o Pruned(SubDirs(top[k]))
    IN  <<"/">> \o below[Len(top)]

\* the keys of sol_folders in insertion order (solidity_etl.py 23-29)
sol_folders(tree, order) ==
    SelectSeq(Walked(order), LAMBDA d : sol_count(tree[d]) > 0)

\* max(sol_folders.items(), key=lambda x: x[1])[0]: the first folder with the
\* greatest count (solidity_etl.py 43)
MaxFolder(tree, folders) ==
    LET most == Greatest({sol_count(tree[folders[k]]) : k \in 1..Len(folders)})
    IN  folders[Least({k \in 1..Len(folders) : sol_count(tree[folders[k]]) = most})]

\* C23 mutant: the folder with the most files is returned whatever its name
FindMostFiles(tree, order) ==
    LET folders == sol_folders(tree, order)
    IN  IF folders = <<>> THEN [found |-> FALSE, path |-> ""]
        ELSE [found |-> TRUE, path |-> MaxFolder(tree, folders)]

\* find_contracts_folder_in_directory(directory) (solidity_etl.py 5-43)
find_contracts_folder_in_directory(tree, order) ==
    LET folders == sol_folders(tree, order)
        priority == SelectSeq(folders, LAMBDA d :
                        Lower(DirName(d)) \in {"contracts", "src", "source", "solidity"})
    IN  IF folders = <<>> THEN [found |-> FALSE, path |-> ""]
        ELSE IF priority /= <<>> THEN [found |-> TRUE, path |-> priority[1]]
        ELSE [found |-> TRUE, path |-> MaxFolder(tree, folders)]

\* the locator is called on a project tree, as server.py 22 and the tests do
LocatorCall ==
    /\ etl.pc = "idle"
    /\ \E tree \in Trees, order \in RootOrders :
          etl' = [pc |-> "returned", tree |-> tree, order |-> order,
                  result |-> find_contracts_folder_in_directory(tree, order), map |-> {}]
    /\ UNCHANGED <<adapters, dt_jobs>>
    /\ UNCHANGED <<clientVars, createVars, serverVars, chatVars, devVars>>

\* the directories folder.rglob visits: the folder and everything below it
\* (client.py 135)
Descendants(folder) ==
    IF folder = "/" THEN TreeDirs
    ELSE IF folder = "/lib" THEN {"/lib", "/lib/Src"}
    ELSE IF folder = "/test" THEN {"/test", "/test/src"}
    ELSE {folder}

\* the directory part of file_path.relative_to(folder) (client.py 137)
RelativeTo(folder, d) ==
    IF d = folder THEN "."
    ELSE IF folder = "/lib" THEN "Src"
    ELSE IF folder = "/test" THEN "src"
    ELSE IF d = "/contracts" THEN "contracts"
    ELSE IF d = "/lib" THEN "lib"
    ELSE IF d = "/lib/Src" THEN "lib/Src"
    ELSE IF d = "/test" THEN "test"
    ELSE "test/src"

\* the pattern "*.sol" of rglob: matched as written on a POSIX path, without
\* regard to case on a Windows path (client.py 135)
GlobSol(f, posix) == IF posix THEN f.ext = ".sol" ELSE Lower(f.ext) = ".sol"

\* pull_in_solidity_test_folder(folder): the keys of the returned map
\* (client.py 126-141)
pull_in_solidity_test_folder(tree, folder, posix) ==
    { [under |-> RelativeTo(folder, d), stem |-> f.stem, ext |-> f.ext] :
        <<d, f>> \in { p \in UNION { {<<d, f>> : f \in tree[d]} : d \in Descendants(folder) } :
                          GlobSol(p[2], posix) } }

\* the client collects the sources of the folder the locator returned
\* (server.py 22-31, client.py 52-53)
CollectorCall ==
    /\ etl.pc = "returned"
    /\ etl.result.found
    /\ \E posix \in BOOLEAN :
          etl' = [etl EXCEPT !.pc = "collected",
                             !.map = pull_in_solidity_test_folder(etl.tree, etl.result.path, posix)]
    /\ UNCHANGED <<adapters, dt_jobs>>
    /\ UNCHANGED <<clientVars, createVars, serverVars, chatVars, devVars>>

NextEtl ==
    \/ LocatorCall
    \/ CollectorCall

SpecEtl == InitLocal /\ [][NextEtl]_vars

----------------------------------------------------------------------------
(* Concurrent build/test calls on one DevToolsService (service.py 15-46,
   runner.py 6-30): each call runs in a thread of its own; its adapter,
   command, Popen object and output are locals of that call *)

\* the calls the threads make: build and test on the same directory, test on
\* another directory with a tool name and an env, build where nothing is
\* detected
JobCalls ==
    { [NoCall EXCEPT !.op = "build", !.dir = {"foundry.toml"}, !.path = GivenPath,
                     !.timeout = DefaultTimeout],
      [NoCall EXCEPT !.op = "test", !.dir = {"foundry.toml"}, !.path = GivenPath,
                     !.timeout = DefaultTimeout],
      [NoCall EXCEPT !.op = "test", !.dir = {"truffle.js"}, !.tool = "Hardhat",
                     !.path = ResolvedPath, !.env = Env([NODE_ENV |-> "test"]),
                     !.timeout = DefaultTimeout],
      [NoCall EXCEPT !.op = "build", !.dir = {}, !.path = ResolvedPath,
                     !.timeout = DefaultTimeout] }

\* what the subprocess of call j writes to its stdout pipe
OutputOf(j) == "out" \o ToString(j)

\* build / test is entered by thread j: self.adapters is read, the adapter is
\* resolved and the subprocess of this call is spawned (service.py 32-46,
\* runner.py 16-23)
JobCall(j) ==
    /\ dt_jobs[j].pc = "idle"
    /\ \E call \in JobCalls :
          LET resolved == _get_adapter(call.dir, call.tool) IN
          IF resolved.kind = "exception"
          THEN dt_jobs' = [dt_jobs EXCEPT ![j] = [pc |-> "raised", call |-> call,
                                                  proc |-> NoProc, result |-> resolved]]
          ELSE LET argv == CommandOf(call.op, resolved.name) IN
               dt_jobs' = [dt_jobs EXCEPT ![j] =
                   [pc |-> "spawned",
                    call |-> [call EXCEPT !.argv = argv],
                    proc |-> [NoProc EXCEPT !.state = "running", !.argv = argv, !.count = 1,
                                            !.cwd = call.path, !.env_arg = call.env,
                                            !.environ = Merge(OsEnviron, EnvOrEmpty(call.env))],
                    result |-> NoOutcome]]
    /\ UNCHANGED <<etl, adapters>>
    /\ UNCHANGED <<clientVars, createVars, serverVars, chatVars, devVars>>

\* the subprocess of call j writes to its own stdout pipe (runner.py 20)
JobProcWrite(j) ==
    /\ dt_jobs[j].proc.state = "running"
    /\ dt_jobs[j].proc.out = <<>>
    /\ dt_jobs' = [dt_jobs EXCEPT ![j].proc.out = <<OutputOf(j)>>]
    /\ UNCHANGED <<etl, adapters>>
    /\ UNCHANGED <<clientVars, createVars, serverVars, chatVars, devVars>>

\* the subprocess of call j exits
JobProcExit(j) ==
    /\ dt_jobs[j].proc.state = "running"
    /\ \E code \in {0, 1} :
          dt_jobs' = [dt_jobs EXCEPT ![j].proc.state = "exited", ![j].proc.code = code]
    /\ UNCHANGED <<etl, adapters>>
    /\ UNCHANGED <<clientVars, createVars, serverVars, chatVars, devVars>>

\* C24 mutant: the process whose result is collected is the one spawned last
\* on the service, not the one of this call
JobReturnLastProc(j) ==
    /\ dt_jobs[j].pc = "spawned"
    /\ dt_jobs[j].proc.state = "exited"
    /\ LET last == dt_jobs[Greatest({k \in Jobs : dt_jobs[k].proc.state = "exited"})].proc IN
       dt_jobs' = [dt_jobs EXCEPT ![j].pc = "returned",
                      ![j].result = _exec(dt_jobs[j].call.argv,
                                          RunTuple(last.code, last.out, last.err))]
    /\ UNCHANGED <<etl, adapters>>
    /\ UNCHANGED <<clientVars, createVars, serverVars, chatVars, devVars>>

\* proc.communicate(timeout) of call j returns and the call returns its
\* CommandResult (runner.py 25, 30; service.py 28-30)
JobReturn(j) ==
    /\ dt_jobs[j].pc = "spawned"
    /\ dt_jobs[j].proc.state = "exited"
    /\ LET own == dt_jobs[j].proc IN
       dt_jobs' = [dt_jobs EXCEPT ![j].pc = "returned",
                      ![j].result = _exec(dt_jobs[j].call.argv,
                                          RunTuple(own.code, own.out, own.err))]
    /\ UNCHANGED <<etl, adapters>>
    /\ UNCHANGED <<clientVars, createVars, serverVars, chatVars, devVars>>

\* proc.communicate(timeout) of call j raises TimeoutExpired: the process of
\* this call is killed and the call returns 124 (runner.py 26-29)
JobTimeout(j) ==
    /\ dt_jobs[j].pc = "spawned"
    /\ dt_jobs[j].proc.state = "running"
    /\ LET own == dt_jobs[j].proc IN
       dt_jobs' = [dt_jobs EXCEPT ![j].pc = "returned",
                      ![j].proc.state = "killed", ![j].proc.code = -9,
                      ![j].result = _exec(dt_jobs[j].call.argv,
                                          RunTuple(TimeoutCode, own.out,
                                                   <<TimeoutMarker(dt_jobs[j].call.timeout)>>
                                                       \o own.err))]
    /\ UNCHANGED <<etl, adapters>>
    /\ UNCHANGED <<clientVars, createVars, serverVars, chatVars, devVars>>

NextJobs ==
    \/ \E j \in Jobs : JobCall(j)
    \/ \E j \in Jobs : JobProcWrite(j)
    \/ \E j \in Jobs : JobProcExit(j)
    \/ \E j \in Jobs : JobReturn(j)
    \/ \E j \in Jobs : JobTimeout(j)

SpecJobs == InitLocal /\ [][NextJobs]_vars

----------------------------------------------------------------------------
(* MockBevorApiClient (tests/mocks/mock_client.py): the in-memory stand-in
   of the client, on the same fields *)

\* the values of str(uuid.uuid4())
Uuids == {"u1", "u2"}

\* the positional arguments a caller passes to chat_contract: the message, or
\* the chat id and the message
ChatArgs == {<<"message">>, <<"chat_id", "message">>}

\* MockBevorApiClient.create(): nothing is awaited on the network, the ids come
\* from the in-memory stores (mock_client.py 30-46, 51-56, 70-90)
MockCreate ==
    /\ cpc \in {"idle", "returned"}
    /\ runs < MaxRuns
    /\ runs' = runs + 1
    /\ cpc' = "returned"
    /\ \E pid \in Uuids, vmid \in Uuids, cid \in Uuids :
          /\ IF ~Truthy(project_id)
             THEN /\ project_id' = pid
                  /\ last_project_response' = PyDict([id |-> pid])
             ELSE UNCHANGED <<project_id, last_project_response>>
          /\ IF Truthy(contracts_folder_path)
             THEN /\ version_mapping_id' = vmid
                  /\ last_version_response' = PyDict([id |-> vmid, version_mapping_id |-> vmid])
                  /\ chat_id' = cid
                  /\ last_chat_response' = PyDict([id |-> cid, version_mapping_id |-> vmid])
             ELSE UNCHANGED <<version_mapping_id, last_version_response,
                              chat_id, last_chat_response>>
    /\ UNCHANGED <<contracts_folder_path, frame, ret, error, stages, uploadLog, chatLog>>
    /\ UNCHANGED <<serverVars, chatVars, devVars, auxVars>>

\* MockBevorApiClient.chat_contract(message) called with the given positional
\* arguments: a second argument is a TypeError, else a str is returned
\* (mock_client.py 92-102)
MockChatContract ==
    /\ cc_pc = "idle"
    /\ \E args \in ChatArgs :
          /\ cc_lines' = args
          /\ IF Len(args) /= 1
             THEN /\ cc_pc' = "raised"
                  /\ cc_result' = Raised("TypeError")
             ELSE /\ cc_pc' = "returned"
                  /\ cc_result' = [kind |-> "str", text |-> <<>>,
                                   detail |-> IF ~Truthy(chat_id)
                                              THEN "Error: No chat initialized"
                                              ELSE "[mock] Received"]
    /\ UNCHANGED <<cc_pos, full_response>>
    /\ UNCHANGED <<clientVars, createVars, serverVars, devVars, auxVars>>

NextMock ==
    \/ MockCreate
    \/ MockChatContract

SpecMock == Init /\ [][NextMock]_vars

----------------------------------------------------------------------------
(* Helpers of the properties *)

\* the elements of a sequence
Range(seq) == {seq[k] : k \in 1..Len(seq)}

\* the status of the last POST of a log (0 with an empty log)
LastStatus(log) == IF log = <<>> THEN 0 ELSE log[Len(log)].status

\* the number of (path, field) candidates of versions_create_folder, of paths of
\* chat_with_version
NUploadCandidates == Len(UploadPaths("")) * Len(FieldNames)
NChatCandidates == Len(ChatPaths(""))

\* the invocation has left _ensure_client_initialized_async by a return
PastEnsure(c) ==
    \/ pc[c] \in {"past", "done"}
    \/ pc[c] = "raised" /\ result[c] = [kind |-> "exception", type |-> "TypeError"]

----------------------------------------------------------------------------
(* C1 .. C10 *)

\* C1: when N >= 2 callers invoke _ensure_client_initialized_async concurrently,
\* client.create() is executed exactly once: a caller that had to wait for the
\* lock while another caller's bootstrap was running never starts a second
\* create() execution.
C1_CreateExactlyOnce ==
    [][\A c \in Callers : (pc[c] = "waiting" /\ pc'[c] = "creating") => runs' <= 1]_vars

\* C2: no caller proceeds past _ensure_client_initialized_async before a bootstrap
\* run has completed: whoever is past it sees _initialized true, the client
\* stored and no create() in progress; while a create() is in progress exactly
\* one caller runs it under the lock, and every other caller that has arrived
\* is queued on the lock.
C2_NoCallerPastBeforeBootstrap ==
    /\ \A c \in Callers :
          PastEnsure(c) =>
             /\ _initialized
             /\ initialized_client = "client"
             /\ cpc = "idle"
             /\ runs >= 1
    /\ cpc /= "idle" =>
          /\ locked
          /\ ~_initialized
          /\ Cardinality({c \in Callers : pc[c] = "creating"}) = 1
    /\ \A c \in Callers : pc[c] = "waiting" <=> c \in Range(waiters)

\* C2 witness: the bootstrap is complete, one caller has proceeded and another,
\* which arrived during the bootstrap, is still queued on the lock.
C2_Witness ==
    \E c, d \in Callers :
       /\ c /= d
       /\ pc[c] \in {"past", "done"}
       /\ pc[d] = "waiting"
       /\ _initialized

\* C3: in every reachable state of a client, chat_id non-null implies
\* version_mapping_id non-null, and version_mapping_id non-null implies
\* project_id non-null.
C3_IdChain ==
    /\ chat_id /= None => version_mapping_id /= None
    /\ version_mapping_id /= None => project_id /= None

\* C4: once project_id, version_mapping_id or chat_id holds a non-null value, no
\* later operation on the object changes it or resets it to null.
C4_IdsImmutable ==
    [][/\ project_id /= None => project_id' = project_id
       /\ version_mapping_id /= None => version_mapping_id' = version_mapping_id
       /\ chat_id /= None => chat_id' = chat_id]_vars

\* C5: when no project id was supplied and the create-project response yields no
\* extractable id, create() leaves project_id null, issues no upload and no
\* chat-open request, and returns.
C5_NoProjectSkipsStages ==
    (/\ stages /= <<>>
     /\ stages[1] = "project"
     /\ cpc \notin {"idle", "project"}
     /\ error = "none"
     /\ project_id = None)
    => /\ cpc = "returned"
       /\ stages = <<"project">>

\* C6: within one create() run the stages happen in the order project-ensure,
\* folder-upload, chat-open; the upload is attempted only when a contracts folder
\* path was supplied (otherwise version_mapping_id and chat_id stay null and no
\* upload or chat-open request is sent); the chat-open request is sent only after
\* the upload of this run yielded a version-mapping id, and carries that id.
C6_StageOrder ==
    /\ stages \in { <<>>, <<"project">>, <<"upload">>, <<"project", "upload">>,
                    <<"upload", "chat">>, <<"project", "upload", "chat">> }
    /\ (cpc \in {"upload", "uploaded"} \/ "upload" \in Range(stages))
          => Truthy(contracts_folder_path)
    /\ ~Truthy(contracts_folder_path) =>
          /\ version_mapping_id = None
          /\ chat_id = None
          /\ cpc \notin {"upload", "uploaded", "chat", "chatted"}
          /\ uploadLog = <<>> /\ chatLog = <<>>
    /\ (cpc \in {"chat", "chatted"} \/ "chat" \in Range(stages)) =>
          /\ "upload" \in Range(stages)
          /\ Truthy(version_mapping_id)
          /\ IsDict(last_version_response)
          /\ version_mapping_id = ExtractVersionId(last_version_response.d)
    /\ cpc \in {"chat", "chatted"} =>
          /\ frame.arg = version_mapping_id
          /\ \A k \in 1..Len(chatLog) : chatLog[k].vmid = version_mapping_id
    /\ cpc \in {"project", "upload", "uploaded"} => chatLog = <<>>
    /\ cpc = "project" => uploadLog = <<>>

\* C6 witness: a run that went through the three stages and has sent the
\* chat-open request.
C6_Witness ==
    /\ cpc = "chatted"
    /\ stages = <<"project", "upload", "chat">>
    /\ chatLog /= <<>>

\* C7: versions_create_folder issues its POSTs path-major over the four paths and,
\* within a path, over files, contracts, sources; at the first response with a
\* status in 200..299 other than 204 it stops and returns that response's body
\* (the {status_code, text} envelope when the body is not JSON).
C7_UploadOrder ==
    /\ Len(uploadLog) <= NUploadCandidates
    /\ \A k \in 1..Len(uploadLog) :
          /\ uploadLog[k].path = UploadPaths(uploadLog[k].pid)[((k - 1) \div Len(FieldNames)) + 1]
          /\ uploadLog[k].field = FieldNames[((k - 1) % Len(FieldNames)) + 1]
          /\ k < Len(uploadLog) => ~Accepted(uploadLog[k].status)
    /\ cpc = "upload" => \A k \in 1..Len(uploadLog) : ~Accepted(uploadLog[k].status)
    /\ (cpc = "uploaded" /\ Accepted(LastStatus(uploadLog))) =>
          /\ frame.last_resp.status = LastStatus(uploadLog)
          /\ ret = JsonOrEnvelope(frame.last_resp)
          /\ frame.last_resp.json => ret = frame.last_resp.body

\* C7 witness: the upload succeeded at the fifth POST or later (second path or
\* beyond) and has returned.
C7_Witness ==
    /\ cpc = "uploaded"
    /\ Len(uploadLog) >= 5
    /\ Accepted(LastStatus(uploadLog))

\* C8: in versions_create_folder and chat_with_version a 404 makes the client
\* attempt the next candidate in order; when every candidate returned 404 the
\* result is the last response (its JSON body, or {status_code, text}), not an
\* exception and not the 'No response' error.
C8_NotFoundFallback ==
    /\ cpc = "upload" =>
          /\ (frame.i - 1) * Len(FieldNames) + frame.j = Len(uploadLog) + 1
          /\ Len(uploadLog) < NUploadCandidates
          /\ \A k \in 1..Len(uploadLog) : uploadLog[k].status = 404
    /\ cpc = "chat" =>
          /\ frame.i = Len(chatLog) + 1
          /\ Len(chatLog) < NChatCandidates
          /\ \A k \in 1..Len(chatLog) : chatLog[k].status = 404
    /\ (cpc = "uploaded" /\ LastStatus(uploadLog) = 404) =>
          /\ Len(uploadLog) = NUploadCandidates
          /\ frame.last_resp.status = 404
          /\ ret = JsonOrEnvelope(frame.last_resp)
          /\ "error" \notin DOMAIN ret.d
          /\ error = "none"
    /\ (cpc = "chatted" /\ LastStatus(chatLog) = 404) =>
          /\ Len(chatLog) = NChatCandidates
          /\ frame.last_resp.status = 404
          /\ ret = JsonOrEnvelope(frame.last_resp)
          /\ "error" \notin DOMAIN ret.d
          /\ error = "none"

\* C8 witness: every one of the twelve upload candidates answered 404 and
\* versions_create_folder has returned.
C8_Witness ==
    /\ cpc = "uploaded"
    /\ Len(uploadLog) = NUploadCandidates
    /\ \A k \in 1..Len(uploadLog) : uploadLog[k].status = 404

C10_TransportFailureCaptured ==
    /\ error /= "ConnectionError"
    /\ (cpc = "uploaded" /\ LastStatus(uploadLog) = 0) => ret = ErrorValue(TransportError)
    /\ (cpc = "chatted" /\ LastStatus(chatLog) = 0) => ret = ErrorValue(TransportError)

----------------------------------------------------------------------------
(* C11 .. C20 *)

\* C11: after create() ends, for every bootstrap stage that was attempted
\* (project create, folder upload, chat open) the matching diagnostic field
\* (last_project_response, last_version_response, last_chat_response) is
\* non-null, whether or not the stage succeeded.
C11_DiagnosticsRecorded ==
    cpc \in {"returned", "raised"} =>
       /\ "project" \in Range(stages) => last_project_response /= PyNone
       /\ "upload" \in Range(stages) => last_version_response /= PyNone
       /\ "chat" \in Range(stages) => last_chat_response /= PyNone

\* the backend accepted the upload: a status in 2xx other than 204 and a JSON
\* object carrying a non-empty version id under one of the keys, at top level or
\* under data
UploadAccepted ==
    /\ Accepted(LastStatus(uploadLog))
    /\ IsDict(ret)
    /\ \E k \in {"version_mapping_id", "version_id", "id"} :
          \/ Truthy(Get(ret.d, k))
          \/ "data" \in DOMAIN ret.d /\ Truthy(Get(ret.d.data, k))

\* the backend accepted the chat-open: a status in 2xx other than 204 and a JSON
\* object carrying a non-empty id or chat_id
ChatAccepted ==
    /\ Accepted(LastStatus(chatLog))
    /\ IsDict(ret)
    /\ \E k \in {"id", "chat_id"} : Truthy(Get(ret.d, k))

\* C12: a create() started with a project id and a contracts folder sends no
\* create-project request and enters the upload; when the backend accepts the
\* upload the run goes on to the chat-open with version_mapping_id set; when the
\* backend accepts the chat-open the run returns with version_mapping_id and
\* chat_id both non-null.
C12_BootstrapReachesChatOpened ==
    [][/\ (runs' = runs + 1 /\ Truthy(project_id) /\ Truthy(contracts_folder_path))
            => (cpc' = "upload" /\ stages' = <<>>)
       /\ (cpc = "uploaded" /\ UploadAccepted)
            => (cpc' = "chat" /\ Truthy(version_mapping_id'))
       /\ (cpc = "chatted" /\ ChatAccepted)
            => /\ cpc' = "returned"
               /\ error' = "none"
               /\ Truthy(version_mapping_id')
               /\ Truthy(chat_id')]_vars

\* C12 witness: a first create() with a supplied project id went through upload
\* and chat-open, the upload having been accepted under the data envelope, and
\* returned with both ids.
C12_Witness ==
    /\ cpc = "returned"
    /\ runs = 1
    /\ stages = <<"upload", "chat">>
    /\ version_mapping_id = "v2"
    /\ chat_id \in {"c1", "c2"}

\* C13: no HTTP request of the bootstrap is executed on the event loop: while a
\* create-project, folder-upload or chat-open request is in flight, an invocation
\* that is pending (not yet in _ensure_client_initialized_async) can be
\* dispatched.
C13_RequestsOffLoop ==
    cpc \in {"project", "upload", "chat"} =>
       \A c \in Callers : pc[c] = "idle" => ENABLED EnsureEnter(c)

\* the keys of a chunk that carry text, in the order of precedence
ContentKeys == <<"content", "text", "message", "response">>

\* the position of the first [DONE] data line of a stream, one past its end when
\* it has none
FirstDone(lines) ==
    LET at == {k \in 1..Len(lines) : lines[k].kind = "data" /\ lines[k].payload.t = "done"}
    IN  IF at = {} THEN Len(lines) + 1 ELSE Least(at)

\* the text fragment of a line: a non-prefixed line verbatim; of a data line the
\* value of the first of the keys content, text, message, response that holds
\* text, or the payload itself when it is not JSON
Fragment(line) ==
    IF line.kind = "plain" THEN line.text
    ELSE IF line.kind = "data" /\ line.payload.t = "dict"
    THEN LET d == line.payload.d
             ks == {k \in 1..Len(ContentKeys) :
                      ContentKeys[k] \in DOMAIN d /\ d[ContentKeys[k]] /= <<>>}
         IN  IF ks = {} THEN <<>> ELSE d[ContentKeys[Least(ks)]]
    ELSE IF line.kind = "data" /\ line.payload.t = "raw" THEN line.payload.s
    ELSE <<>>

\* the fragments of the first n lines, concatenated in arrival order
Concat(lines, n) ==
    LET f[k \in 0..n] == IF k = 0 THEN <<>> ELSE f[k - 1] \o Fragment(lines[k])
    IN  f[n]

\* the fragments of the lines before the first [DONE], concatenated
Concatenation(lines) == Concat(lines, FirstDone(lines) - 1)

\* C14 as stated: the text chat_contract returns for a 200 response equals the
\* concatenation, in arrival order, of the fragments of the lines before the
\* first [DONE].
C14_TextIsConcatenation ==
    (cc_pc = "returned" /\ cc_result.kind = "response")
    => cc_result.text = Concatenation(cc_lines)

\* C14 amended: the text chat_contract returns for a 200 response equals the
\* concatenation, in arrival order, of the fragments of the lines before the
\* first [DONE], with the whitespace at its two ends removed; text is returned
\* exactly when that is not empty, and lines after the first [DONE] are not read.
C14_TextIsStrippedConcatenation ==
    /\ cc_pc = "streaming" =>
          /\ cc_pos <= FirstDone(cc_lines)
          /\ full_response = Concat(cc_lines, cc_pos - 1)
    /\ cc_pc = "drained" =>
          /\ cc_pos = FirstDone(cc_lines)
          /\ full_response = Concatenation(cc_lines)
    /\ (cc_pc = "returned" /\ cc_result.kind = "response") =>
          /\ cc_result.text = Strip(Concatenation(cc_lines))
          /\ cc_result.text /= <<>>
    /\ (cc_pc \in {"returned", "raised"} /\ cc_pos > 0
          /\ cc_result.kind /= "response"
          /\ cc_result.detail /= "Error processing stream") =>
          Strip(Concatenation(cc_lines)) = <<>>

\* C14 witness: a stream of a data line, [DONE] and a further line was read and
\* the text returned is the first line's fragment without its leading
\* whitespace.
C14_Witness ==
    /\ cc_pc = "returned"
    /\ cc_result.kind = "response"
    /\ Len(cc_lines) = 3
    /\ FirstDone(cc_lines) = 2
    /\ Fragment(cc_lines[3]) /= <<>>
    /\ cc_result.text /= Concatenation(cc_lines)

\* C15: a chat call of the facade (security_chat, functionality_chat,
\* explain_code) ends by returning a string or an error value: no invocation
\* that is past the bootstrap ends in the TypeError of the chat_contract call.
C15_ChatNeverRaises ==
    \A c \in Callers :
        ~(pc[c] = "raised" /\ result[c] = [kind |-> "exception", type |-> "TypeError"])

\* the positions in DEFAULT_ADAPTERS of the adapters applicable to a directory
ApplicableAt(dir) ==
    {k \in 1..Len(DEFAULT_ADAPTERS) : is_applicable(DEFAULT_ADAPTERS[k], dir)}

\* the call went through detection: detect itself, or another operation of the
\* service or the facade without a tool name
Detected ==
    /\ dt_pc /= "idle"
    /\ \/ dt_call.op = "detect"
       \/ dt_call.op \in {"_get_adapter"} \cup ServiceOps \cup FacadeOps /\ ~Truthy(dt_call.tool)

\* C16: for every project directory detect returns the first adapter, in the
\* order Foundry > Hardhat > Truffle, whose is_applicable is true - Foundry
\* whenever foundry.toml is present, whatever else is - and raises the 'No
\* supported dev tool detected' error exactly when no adapter is applicable.
C16_DetectFirstApplicable ==
    Detected =>
       LET at == ApplicableAt(dt_call.dir)
           failed == /\ dt_pc = "raised"
                     /\ dt_result.kind = "exception"
                     /\ dt_result.type = "RuntimeError"
                     /\ dt_result.msg = "No supported dev tool detected in project directory"
       IN  /\ failed <=> at = {}
           /\ at /= {} => dt_adapter = DEFAULT_ADAPTERS[Least(at)]
           /\ "foundry.toml" \in dt_call.dir => dt_adapter = "foundry"
           /\ (dt_call.op = "detect" /\ at /= {}) =>
                 (dt_pc = "returned" /\ dt_result = Adapter(dt_adapter))

\* C16 witness: detect on a directory holding a Foundry, a Hardhat and a Truffle
\* marker returned Foundry.
C16_Witness ==
    /\ dt_call.op = "detect"
    /\ dt_pc = "returned"
    /\ {"foundry.toml", "hardhat.config.js", "truffle.js"} \subseteq dt_call.dir
    /\ dt_result = Adapter("foundry")

\* the call was given a tool name
Named ==
    /\ dt_pc /= "idle"
    /\ dt_call.op \in {"_get_adapter"} \cup ServiceOps \cup FacadeOps
    /\ Truthy(dt_call.tool)

\* C17: with an explicit tool name the adapter is the one whose name equals it
\* up to case, whatever the directory holds (applicable or not); a name no
\* adapter has raises the 'Unknown tool' error, which names the tool and lists
\* the names of all registered adapters.
C17_ExplicitToolByName ==
    Named =>
       IF \E k \in 1..Len(DEFAULT_ADAPTERS) : DEFAULT_ADAPTERS[k] = Lower(dt_call.tool)
       THEN /\ dt_adapter = Lower(dt_call.tool)
            /\ dt_call.op = "_get_adapter" =>
                  (dt_pc = "returned" /\ dt_result = Adapter(dt_adapter))
            /\ dt_call.op /= "_get_adapter" => dt_call.argv = CommandOf(dt_call.op, dt_adapter)
            /\ dt_result.kind = "exception" => dt_result.type = "OSError"
       ELSE /\ dt_pc = "raised"
            /\ dt_adapter = None
            /\ dt_result = Exception("ValueError", "Unknown tool", dt_call.tool,
                                      <<"foundry", "hardhat", "truffle">>)

\* C17 witness: build with tool FOUNDRY on a directory that holds only Hardhat
\* and Truffle markers ran forge build.
C17_Witness ==
    /\ dt_call.op = "build"
    /\ dt_call.tool = "FOUNDRY"
    /\ dt_call.dir = {"hardhat.config.ts", "truffle-config.js"}
    /\ dt_pc = "returned"
    /\ dt_result.kind = "CommandResult"
    /\ dt_result.command = <<"forge", "build">>

\* C18: a build or test call (DevToolsService.build/test, build_command,
\* test_command) never throws, for every directory and tool argument; a failure
\* to spawn the subprocess is the only condition that propagates.
C18_BuildTestNeverThrow ==
    (dt_pc = "raised" /\ dt_call.op \in ServiceOps \cup FacadeOps)
    => dt_result.type = "OSError"

\* the exit code, stdout and stderr a returned outcome reports
Reported ==
    IF dt_result.kind = "tuple"
    THEN [code |-> dt_result.code, stdout |-> dt_result.out, stderr |-> dt_result.err]
    ELSE [code |-> dt_result.code, stdout |-> dt_result.stdout, stderr |-> dt_result.stderr]

\* C19: when the subprocess has not finished within the timeout run_command
\* kills it and returns, without raising, exit code 124, the stdout produced so
\* far and a stderr that starts with 'Timeout after <timeout>s' followed by the
\* stderr accumulated so far; once a call has returned its subprocess is not
\* running.
C19_TimeoutKillsAndReports ==
    /\ dt_proc.state = "killed" =>
          /\ dt_pc = "returned"
          /\ dt_result.kind \in {"tuple", "CommandResult", "dict"}
          /\ Reported.code = TimeoutCode
          /\ Reported.stdout = dt_proc.out
          /\ Head(Reported.stderr) = TimeoutMarker(dt_call.timeout)
          /\ Tail(Reported.stderr) = dt_proc.err
          /\ dt_call.timeout = DefaultTimeout => Head(Reported.stderr) = "Timeout after 900s\n"
          /\ dt_call.timeout = TestTimeout => Head(Reported.stderr) = "Timeout after 1s\n"
    /\ dt_pc \in {"returned", "raised"} => dt_proc.state /= "running"

\* C19 witness: run_command with timeout 1 killed a subprocess that had written
\* to stdout and to stderr.
C19_Witness ==
    /\ dt_call.op = "run_command"
    /\ dt_call.timeout = TestTimeout
    /\ dt_proc.state = "killed"
    /\ dt_proc.out /= <<>>
    /\ dt_proc.err /= <<>>
    /\ dt_pc = "returned"

\* C20: whatever exit code the subprocess ends with, run_command returns it as
\* data and nothing is raised once the process was spawned; the CommandResult of
\* build/test has ok true iff the code is 0, code, stdout and stderr as the
\* runner returned them and command the argv that was run, which is the
\* adapter's command.
C20_ExitCodeAsData ==
    /\ dt_pc = "raised" => dt_proc.state = "none"
    /\ dt_proc.state = "exited" => dt_pc \in {"spawned", "returned"}
    /\ (dt_pc = "returned" /\ dt_proc.state = "exited") =>
          /\ Reported = [code |-> dt_proc.code, stdout |-> dt_proc.out, stderr |-> dt_proc.err]
          /\ dt_call.op = "run_command" => dt_result.kind = "tuple"
    /\ (dt_pc = "returned" /\ dt_call.op \in ServiceOps \cup FacadeOps) =>
          /\ dt_result.kind = IF dt_call.op \in ServiceOps THEN "CommandResult" ELSE "dict"
          /\ dt_result.ok <=> dt_result.code = 0
          /\ dt_result.command = dt_proc.argv
          /\ dt_result.command = CommandOf(dt_call.op, dt_adapter)

\* C20 witness: a build whose subprocess died by a signal after writing to
\* stderr returned a CommandResult that is not ok.
C20_Witness ==
    /\ dt_call.op = "build"
    /\ dt_pc = "returned"
    /\ dt_proc.state = "exited"
    /\ dt_proc.code < 0
    /\ dt_proc.err /= <<>>
    /\ dt_result.kind = "CommandResult"
    /\ ~dt_result.ok

\* C21: for every combination of files in the project directory, Foundry is
\* applicable iff foundry.toml is there (a forge binary alone is not enough),
\* Hardhat iff hardhat.config.js, hardhat.config.ts or node_modules/.bin/hardhat
\* is there, Truffle iff truffle-config.js, truffle.js or
\* node_modules/.bin/truffle is there; the probe starts no process and leaves
\* the directory as it was given.
C21_ApplicableIffMarkers ==
    (dt_call.op = "is_applicable" /\ dt_pc = "returned") =>
        /\ dt_result.kind = "bool"
        /\ dt_call.tool = "foundry" =>
              (dt_result.value <=> "foundry.toml" \in dt_call.dir)
        /\ dt_call.tool = "hardhat" =>
              (dt_result.value <=>
                 dt_call.dir \cap {"hardhat.config.js", "hardhat.config.ts",
                                   "node_modules/.bin/hardhat"} /= {})
        /\ dt_call.tool = "truffle" =>
              (dt_result.value <=>
                 dt_call.dir \cap {"truffle-config.js", "truffle.js",
                                   "node_modules/.bin/truffle"} /= {})
        /\ dt_proc = NoProc

\* C21 witness: Foundry was probed on a directory that holds a forge binary
\* and no foundry.toml, and is not applicable.
C21_Witness ==
    /\ dt_call.op = "is_applicable"
    /\ dt_pc = "returned"
    /\ dt_call.tool = "foundry"
    /\ dt_call.dir = {"bin/forge"}
    /\ dt_result.value = FALSE

\* the fixed argv of each adapter's build and test
LiteralCommand(op, adapter) ==
    IF op \in {"build", "build_command"}
    THEN IF adapter = "foundry" THEN <<"forge", "build">>
         ELSE IF adapter = "hardhat" THEN <<"npx", "hardhat", "compile">>
         ELSE <<"npx", "truffle", "build">>
    ELSE IF adapter = "foundry" THEN <<"forge", "test">>
         ELSE IF adapter = "hardhat" THEN <<"npx", "hardhat", "test">>
         ELSE <<"npx", "truffle", "test">>

\* C22: a build or test call that got as far as run_command has started
\* exactly one subprocess; its argv is the resolved adapter's literal command,
\* whatever the directory holds, its working directory is the project
\* directory the call was given and the env mapping run_command received is
\* the caller's.
C22_OneSubprocessFixedArgv ==
    (dt_call.op \in ServiceOps \cup FacadeOps /\ dt_pc \in {"spawned", "returned"}) =>
        /\ dt_proc.count = 1
        /\ dt_proc.argv = LiteralCommand(dt_call.op, dt_adapter)
        /\ dt_proc.cwd = dt_call.path
        /\ dt_call.op \in ServiceOps => dt_proc.cwd = GivenPath
        /\ dt_proc.env_arg = dt_call.env

\* C22 witness: test with an explicit tool and an env mapping, on a directory
\* without the tool's markers, returned after running npx hardhat test.
C22_Witness ==
    /\ dt_call.op = "test"
    /\ dt_pc = "returned"
    /\ dt_call.tool = "Hardhat"
    /\ dt_call.dir = {"foundry.toml"}
    /\ dt_call.env = Env([NODE_ENV |-> "test"])
    /\ dt_proc.argv = <<"npx", "hardhat", "test">>
    /\ dt_proc.count = 1

\* C25: the environment of the spawned process has every key of the extra
\* mapping with the extra value, every other inherited key with its inherited
\* value and no further key; without an extra mapping it is the inherited
\* environment.
C25_EnvMergedOnTop ==
    dt_proc.state /= "none" =>
        LET extra == IF dt_call.env.given THEN dt_call.env.map ELSE EmptyDict
        IN  /\ DOMAIN dt_proc.environ = DOMAIN OsEnviron \cup DOMAIN extra
            /\ \A k \in DOMAIN extra : dt_proc.environ[k] = extra[k]
            /\ \A k \in DOMAIN OsEnviron \ DOMAIN extra : dt_proc.environ[k] = OsEnviron[k]
            /\ ~dt_call.env.given => dt_proc.environ = OsEnviron

\* C25 witness: a process was spawned with an extra mapping that sets PATH,
\* which the inherited environment has too, and a key of its own.
C25_Witness ==
    /\ dt_proc.state = "running"
    /\ dt_call.env = Env([PATH |-> "/custom", VERBOSE |-> "1"])
    /\ dt_proc.environ.PATH = "/custom"
    /\ dt_proc.environ.HOME = "/root"
    /\ dt_proc.environ.VERBOSE = "1"

\* C29: a call that fails because no adapter is applicable, or because no
\* adapter has the requested name, raises an error that carries the
\* available tool names.
C29_NotFoundNamesTools ==
    (dt_pc = "raised" /\ dt_result.type \in {"RuntimeError", "ValueError"}) =>
        dt_result.supported = DEFAULT_ADAPTERS

\* C26 as stated: a create() run sends the create-project request iff
\* project_id is null when the run starts; with any other project_id no
\* create-project request is sent and create() leaves project_id as it is.
C26_ProjectRequestIffNull ==
    [][ /\ runs' = runs + 1 => ((cpc' = "project") <=> (project_id = None))
        /\ project_id /= None => project_id' = project_id ]_vars

\* C26: a create() run sends the create-project request iff project_id is
\* null or the empty string when the run starts, and only at its start; with a
\* non-empty project_id no create-project request is sent in the run and
\* create() leaves project_id as it is.
C26_ProjectRequestIffNoId ==
    [][ /\ runs' = runs + 1 => ((cpc' = "project") <=> ~Truthy(project_id))
        /\ runs' = runs + 1 => (("project" \in Range(stages')) <=> ~Truthy(project_id))
        /\ runs' = runs => ("project" \in Range(stages') <=> "project" \in Range(stages))
        /\ (cpc' = "project" /\ cpc /= "project") => runs' = runs + 1
        /\ Truthy(project_id) => project_id' = project_id ]_vars

\* C26 witness: a run of create() on a client built with a project id and a
\* contracts folder has returned after uploading, without a create-project
\* request and with the project id it was given.
C26_Witness ==
    /\ cpc = "returned"
    /\ project_id = "p0"
    /\ last_project_response = PyNone
    /\ "upload" \in Range(stages)
    /\ "project" \notin Range(stages)

\* an id under any of the accepted shapes of a create-project response
AcceptedProjectId(d) ==
    Or(Get(d, "id"), Or(Get(d, "project_id"),
       IF "data" \in DOMAIN d THEN Get(d.data, "id") ELSE None))

\* an id under any of the accepted shapes of an upload response
AcceptedVersionId(d) ==
    LET ids(e) == Or(Get(e, "version_mapping_id"), Or(Get(e, "version_id"), Get(e, "id")))
    IN  Or(ids(d), IF "data" \in DOMAIN d THEN ids(d.data) ELSE None)

\* C27: the id of the create-project response - top-level id, top-level
\* project_id, or id under a data envelope - is stored in project_id, and the
\* id of the upload response - version_mapping_id, version_id or id, at top
\* level or under data - is stored in version_mapping_id.
C27_IdsExtractedAnyShape ==
    /\ (IsDict(last_project_response) /\ Truthy(AcceptedProjectId(last_project_response.d)))
          => project_id = AcceptedProjectId(last_project_response.d)
    /\ (IsDict(last_version_response) /\ Truthy(AcceptedVersionId(last_version_response.d)))
          => version_mapping_id = AcceptedVersionId(last_version_response.d)

\* C28: a chat_contract call whose response is not a 200 returns an error
\* value and has read no line of the stream; a call whose 200 stream yielded
\* no text ends by returning the parsed body or an error value, never by
\* raising.
C28_NoTextFallbackReturns ==
    /\ (cc_pc = "returned" /\ cc_pos = 0) =>
          (cc_result.kind = "error" /\ full_response = <<>>)
    /\ (cc_pc \in {"returned", "raised"} /\ cc_pos >= 1 /\ Strip(full_response) = <<>>) =>
          (cc_pc = "returned" /\ cc_result.kind \in {"json", "error"})

\* C30: a health_check that returned went through the bootstrap check first,
\* and its report carries the session's project_id, version_mapping_id and
\* chat_id, the resolved contracts folder path, and the status 'healthy' iff
\* all three ids are non-null.
C30_HealthReportsSession ==
    \A c \in Callers :
        result[c].kind = "report" =>
            /\ _initialized
            /\ result[c].project_id = project_id
            /\ result[c].version_mapping_id = version_mapping_id
            /\ result[c].chat_id = chat_id
            /\ result[c].contracts_folder_path = contracts_folder_path
            /\ result[c].status = "healthy" <=>
                  (project_id /= None /\ version_mapping_id /= None /\ chat_id /= None)

\* the directories the walk reaches that directly hold a .sol file
SolDirs ==
    {d \in {"/", "/contracts", "/lib", "/lib/Src"} :
        \E f \in etl.tree[d] : f.ext \in {".sol", ".SOL"}}

\* the directories named contracts, src, source or solidity, in any letter case
Conventional == {"/contracts", "/lib/Src"}

\* C23: the locator returns none when no walked directory directly holds a
\* .sol file; otherwise a directory named contracts, src, source or solidity
\* that holds at least one, whenever there is one among them - even if another
\* directory holds more; otherwise a directory with the greatest number of
\* .sol files.
C23_LocatorResult ==
    etl.pc = "returned" =>
        LET n(d) == Cardinality({f \in etl.tree[d] : f.ext \in {".sol", ".SOL"}})
        IN  /\ ~etl.result.found <=> SolDirs = {}
            /\ etl.result.found => etl.result.path \in SolDirs
            /\ SolDirs \cap Conventional /= {} => etl.result.path \in Conventional
            /\ (SolDirs /= {} /\ SolDirs \cap Conventional = {}) =>
                  \A d \in SolDirs : n(etl.result.path) >= n(d)

\* C23 witness: the tree has one .sol file in lib/Src and two in lib, which is
\* walked first, and the locator returned lib/Src.
C23_Witness ==
    /\ etl.pc = "returned"
    /\ etl.tree["/contracts"] = FilesOf(0)
    /\ etl.tree["/lib/Src"] = FilesOf(1)
    /\ etl.tree["/lib"] = FilesOf(2)
    /\ etl.tree["/test/src"] = FilesOf(2)
    /\ etl.result = [found |-> TRUE, path |-> "/lib/Src"]

\* C24: whatever the interleaving of concurrent build/test calls on one
\* service, the adapter list stays as constructed, and a call that returned
\* reports the command, the exit code and the output of the subprocess it
\* spawned itself: nothing another call's subprocess wrote or exited with.
C24_StatelessUnderConcurrency ==
    /\ adapters = DEFAULT_ADAPTERS
    /\ \A j \in Jobs :
          dt_jobs[j].pc = "returned" =>
             LET own == dt_jobs[j].proc
                 res == dt_jobs[j].result
             IN  /\ res.command = own.argv
                 /\ own.cwd = dt_jobs[j].call.path
                 /\ res.stdout = own.out
                 /\ \A k \in 1..Len(res.stdout) : res.stdout[k] = OutputOf(j)
                 /\ own.state = "exited" => (res.code = own.code /\ res.stderr = own.err)
                 /\ own.state = "killed" => res.code = TimeoutCode
                 /\ own.state \in {"exited", "killed"}
    /\ \A j \in Jobs :
          dt_jobs[j].pc = "spawned" => dt_jobs[j].proc.state \in {"running", "exited"}

\* C24 witness: two calls on the same project directory have both returned,
\* the first with exit code 1 and its own output, the second after its
\* subprocess was killed on a timeout.
C24_Witness ==
    /\ dt_jobs[1].pc = "returned"
    /\ dt_jobs[2].pc = "returned"
    /\ dt_jobs[1].call.path = dt_jobs[2].call.path
    /\ dt_jobs[1].result.code = 1
    /\ dt_jobs[1].result.stdout = <<OutputOf(1)>>
    /\ dt_jobs[2].proc.state = "killed"
    /\ dt_jobs[2].result.code = TimeoutCode

\* the tree without the files of the directory test and of what is below it
WithoutSkipped(tree) ==
    [d \in DOMAIN tree |-> IF d \in {"/test", "/test/src"} THEN FilesOf(0) ELSE tree[d]]

\* C31: the locator does not descend into a sub-directory named .git,
\* node_modules, build or test: the result is the one for the tree without the
\* .sol files of such a directory and of its descendants, and it is neither
\* such a directory nor one below it.
C31_SkippedNeverCounted ==
    etl.pc = "returned" =>
        /\ etl.result.path \notin {"/test", "/test/src"}
        /\ etl.result = find_contracts_folder_in_directory(WithoutSkipped(etl.tree), etl.order)
        /\ (\A d \in {"/", "/contracts", "/lib", "/lib/Src"} : etl.tree[d] = FilesOf(0))
              => ~etl.result.found

\* C31 witness: the only .sol files of the tree are in test and in test/src,
\* a directory with a conventional name, and the locator returned none.
C31_Witness ==
    /\ etl.pc = "returned"
    /\ etl.tree["/test"] = FilesOf(2)
    /\ etl.tree["/test/src"] = FilesOf(1)
    /\ \A d \in {"/", "/contracts", "/lib", "/lib/Src"} : etl.tree[d] = FilesOf(0)
    /\ etl.order[1] = "/test"
    /\ ~etl.result.found

\* C32: on MockBevorApiClient chat_contract takes the arguments of
\* BevorApiClient.chat_contract - the chat id and the message - and returns
\* the same kind of result, a dict with the response or the error; and after
\* create() the ids have the pattern the client has against an accepting
\* backend: a project id, and a version-mapping id and a chat id exactly when
\* there is a contracts folder.
C32_MockSameInterface ==
    /\ cc_pc /= "idle" =>
          /\ cc_lines = <<"chat_id", "message">> => cc_pc = "returned"
          /\ cc_pc = "returned" => cc_result.kind \in {"response", "error", "json"}
    /\ cpc = "returned" =>
          /\ project_id /= None
          /\ version_mapping_id /= None <=> Truthy(contracts_folder_path)
          /\ chat_id /= None <=> Truthy(contracts_folder_path)

\* a bootstrap is in progress: some caller is inside client.create()
Bootstrapping == \E c \in Callers : pc[c] = "creating"

\* C33: when create() raises inside _ensure_client_initialized_async the step
\* releases the lock and leaves _initialized false; the lock is held only
\* while a bootstrap is in progress; with the lock free the first waiter can
\* always take it, and a caller that gets the lock with _initialized false
\* starts a bootstrap run of its own.
C33_RaiseReleasesLock ==
    /\ [](locked => Bootstrapping)
    /\ []((waiters /= <<>> /\ ~locked) => ENABLED LockAcquired(Head(waiters)))
    /\ [][\A c \in Callers :
            /\ (pc[c] = "creating" /\ pc'[c] = "raised") =>
                  (~locked' /\ ~_initialized' /\ ~_initialized)
            /\ (pc[c] \in {"idle", "waiting"} /\ pc'[c] \notin {"idle", "waiting"}
                    /\ ~_initialized) =>
                  (pc'[c] = "creating" /\ runs' = runs + 1 /\ locked')]_vars

\* C33 witness: the first caller's create() raised, and the caller that was
\* waiting on the lock is now running the second bootstrap.
C33_Witness ==
    \E c, d \in Callers :
       /\ pc[c] = "raised"
       /\ result[c].kind = "exception"
       /\ result[c].type /= "TypeError"
       /\ pc[d] = "creating"
       /\ runs = 2
       /\ ~_initialized

\* C34: the step on which a bootstrap run returns normally sets _initialized;
\* from then on _initialized stays true, create() is never entered again and
\* no step - no chat call, no health call - changes project_id,
\* version_mapping_id or chat_id, also when some of them are still null.
C34_BootstrapOnlyOnce ==
    [][ /\ \A c \in Callers :
             (pc[c] = "creating" /\ pc'[c] = "past") => _initialized'
        /\ _initialized =>
             /\ _initialized'
             /\ runs' = runs
             /\ cpc' = "idle"
             /\ project_id' = project_id
             /\ version_mapping_id' = version_mapping_id
             /\ chat_id' = chat_id ]_vars

\* C34 witness: the only bootstrap run ended degraded - no chat id - and
\* afterwards one caller got its health report and another one's chat call
\* ended, with no further run.
C34_Witness ==
    \E c, d \in Callers :
       /\ _initialized
       /\ chat_id = None
       /\ runs = 1
       /\ result[c].kind = "report"
       /\ pc[d] = "raised"
       /\ result[d] = [kind |-> "exception", type |-> "TypeError"]

\* C35: create() sets version_mapping_id to a non-null value only when the
\* last upload attempt of the run got a status in 200..299 other than 204, and
\* chat_id only when the last chat-open attempt did: a terminal non-2xx
\* response, an all-404 outcome or a transport error sets no id, whatever its
\* body holds.
C35_IdsOnlyOnSuccess ==
    [][ /\ (cpc = "uploaded" /\ version_mapping_id' /= None) =>
              Accepted(LastStatus(uploadLog))
        /\ (cpc = "chatted" /\ chat_id' /= None /\ chat_id' /= chat_id) =>
              Accepted(LastStatus(chatLog)) ]_vars

\* C36: a call of versions_create_folder issues at most 12 POSTs and a call of
\* chat_with_version at most 3, no (path, field) candidate twice; a create()
\* run goes through each of its three stages at most once, so it issues at
\* most 1 + 12 + 3 requests, and while it is in progress it always has a next
\* step.
C36_BoundedRequests ==
    /\ Len(uploadLog) <= 12
    /\ Len(chatLog) <= 3
    /\ \A k, l \in 1..Len(uploadLog) :
          (uploadLog[k].path = uploadLog[l].path /\ uploadLog[k].field = uploadLog[l].field)
             => k = l
    /\ \A k, l \in 1..Len(chatLog) : chatLog[k].path = chatLog[l].path => k = l
    /\ Len(stages) <= 3
    /\ \A k, l \in 1..Len(stages) : stages[k] = stages[l] => k = l
    /\ cpc \in {"project", "upload", "uploaded", "chat", "chatted"} => ENABLED CreateStep

\* C36 witness: a run that created the project and uploaded has had its three
\* chat-open candidates answered 404.
C36_Witness ==
    /\ cpc = "chatted"
    /\ stages = <<"project", "upload", "chat">>
    /\ Len(chatLog) = 3
    /\ LastStatus(chatLog) = 404

\* C37: in versions_create_folder and chat_with_version a 204 is the last
\* request of the call and the call returns that response ({status_code: 204,
\* text}); create() takes no id from it, so the upload's 204 ends the run
\* without a chat-open stage.
C37_NoContentTerminal ==
    [][ /\ \A k \in 1..Len(uploadLog) :
              uploadLog[k].status = 204 => (k = Len(uploadLog) /\ cpc = "uploaded")
        /\ \A k \in 1..Len(chatLog) :
              chatLog[k].status = 204 => (k = Len(chatLog) /\ cpc = "chatted")
        /\ (cpc = "uploaded" /\ LastStatus(uploadLog) = 204) =>
              /\ ret = PyDict([status_code |-> 204, text |-> ""])
              /\ version_mapping_id' = None
              /\ cpc' = "returned"
        /\ (cpc = "chatted" /\ LastStatus(chatLog) = 204) =>
              /\ ret = PyDict([status_code |-> 204, text |-> ""])
              /\ chat_id' = None ]_vars

\* C37 witness: the second upload POST, after a 404, answered 204 and the call
\* has returned.
C37_Witness ==
    /\ cpc = "uploaded"
    /\ Len(uploadLog) = 2
    /\ uploadLog[1].status = 404
    /\ LastStatus(uploadLog) = 204

\* C38: a transport exception on an upload or chat-open attempt is the last
\* attempt of the call, also after 404s, and the call returns {error: message}.
C38_TransportErrorEndsLoop ==
    /\ \A k \in 1..Len(uploadLog) :
          uploadLog[k].status = 0 =>
             (k = Len(uploadLog) /\ cpc = "uploaded"
                /\ ret = PyDict([error |-> "ConnectionError"]))
    /\ \A k \in 1..Len(chatLog) :
          chatLog[k].status = 0 =>
             (k = Len(chatLog) /\ cpc = "chatted"
                /\ ret = PyDict([error |-> "ConnectionError"]))
    /\ cpc \in {"upload", "uploaded", "chat", "chatted"} => error = "none"

\* C38 witness: the third chat-open POST, after two 404s, failed in transport
\* and chat_with_version has returned.
C38_Witness ==
    /\ cpc = "chatted"
    /\ Len(chatLog) = 3
    /\ chatLog[1].status = 404
    /\ chatLog[2].status = 404
    /\ chatLog[3].status = 0
    /\ ret = PyDict([error |-> "ConnectionError"])

C40_LocatorCollectorAgree ==
    etl.pc = "collected" =>
        /\ etl.map /= {}
        /\ \A f \in etl.tree[etl.result.path] :
              f.ext \in {".sol", ".SOL"} =>
                 [under |-> ".", stem |-> f.stem, ext |-> f.ext] \in etl.map
        /\ \A key \in etl.map : key.under \notin TreeDirs

====
